---- MODULE Spec2Model ----
(***************************************************************************)
(* Verification model of the srnx repository: the streaming RINEX record   *)
(* reader (rinex_parse.c, rinex_p.c), the fixed-width field parsers, the   *)
(* bit-matrix transpose (transpose.c) and the SOCD observation reader      *)
(* (srnx.c).                                                               *)
(*                                                                         *)
(* The module holds several specifications over one set of variables:     *)
(*   Spec      the RINEX 2.x / 3.x record reader driven by read() calls    *)
(*   SpecFx    the fixed-point field parsers applied to one field          *)
(*   SpecTr    transpose() applied to one bit matrix                       *)
(*   SpecSocd  the SOCD observation reader driven by read_value calls      *)
(*   SpecEpoc  srnx_get_epochs applied to one EPOC chunk                   *)
(*   SpecLeb   uleb128 and sleb128 applied to one encoded number           *)
(*   SpecOpen  rinex_open applied to one file                              *)
(*   SpecCont  the SRNX container reader: srnx_open and the lookups        *)
(* A specification leaves the variables of the other parts at their idle   *)
(* values.                                                                 *)
(***************************************************************************)
EXTENDS Integers, Sequences, FiniteSets, TLC

VARIABLES
    \* ---- transpose.c
    tr_in,       \* input bit matrix: sequence of bytes (in[k] is tr_in[k+1])
    tr_bits,     \* number of rows
    tr_count,    \* number of columns: 8, 16 or 32
    tr_out,      \* out[]: sequence of 64-bit words, <<>> before the call
    transpose,   \* the implementation the transpose pointer selects
    \* ---- fixed-width field parsers
    fx_field,    \* the 16 characters at the field's start
    fx_ret,      \* result of rinex_parse_obs, ret = "none" before the call
    fx_obs,      \* result of rnx_parse_obs, ret = "none" before the call
    \* ---- RINEX reader (struct rnx_v23_parser, struct rinex_stream)
    file,        \* the whole input as a sequence of characters
    version,     \* 2 or 3: which read function rinex_open installed
    n_obs,       \* n_obs[sys]: observation count per satellite system letter
    stream,      \* [start, size]: window of file held by stream->buffer
    parse_ofs,   \* p->parse_ofs
    epoch,       \* p->base.epoch
    buffer,      \* p->base.buffer: sequence of bytes, length buffer_alloc
    buffer_len,  \* p->base.buffer_len
    buffer_alloc,\* p->buffer_alloc
    obs_alloc,   \* p->obs_alloc
    obs,         \* p->base.obs (prefix that has ever been written)
    lli,         \* p->base.lli
    ssi,         \* p->base.ssi
    ret,         \* status returned by the last read() (Success after open)
    hist,        \* history: what the read() calls did, for stating claims
    recs,        \* history: the records the input file was composed of
    \* ---- SOCD observation reader (struct srnx_obs_reader)
    socd,        \* bytes of the mapped file holding one SOCD data block
    rdr,         \* the srnx_obs_reader fields
    rv,          \* history of read_value results
    \* ---- EPOC chunk decoding (srnx_get_epochs)
    epoc,        \* the spans the chunk stores and the result of the call
    \* ---- indicators (srnx_read_obs_ssi_lli)
    ind,         \* the run-length pairs the chunk stores and the result of the call
    \* ---- LEB128 decoders (uleb128, sleb128)
    leb,         \* the encoded number and the result of the call
    \* ---- SRNX container reader (struct srnx_reader)
    srnx,        \* the srnx_reader fields and the state of the file mapping
    api          \* history: the container calls made and what they returned

trVars == <<tr_in, tr_bits, tr_count, tr_out, transpose>>
fxVars == <<fx_field, fx_ret, fx_obs>>
rnxVars == <<file, version, n_obs, stream, parse_ofs, epoch, buffer,
             buffer_len, buffer_alloc, obs_alloc, obs, lli, ssi, ret, hist, recs>>
socdVars == <<socd, rdr, rv, epoc, ind, leb>>
contVars == <<srnx, api>>
vars == <<trVars, fxVars, rnxVars, socdVars, contVars>>

\* Idle values of each part.
TrIdle ==
    /\ tr_in = <<>> /\ tr_bits = 0 /\ tr_count = 0 /\ tr_out = <<>>
    /\ transpose = "none"
FxIdle ==
    /\ fx_field = <<>>
    /\ fx_ret = [ret |-> "none", value |-> <<0, 0>>]
    /\ fx_obs = [ret |-> "none", adv |-> 0, value |-> <<0, 0>>, lli |-> " ", ssi |-> " "]
RnxIdle ==
    /\ file = <<>> /\ version = 0 /\ n_obs = <<>> /\ stream = <<>>
    /\ parse_ofs = 0 /\ epoch = <<>> /\ buffer = <<>> /\ buffer_len = 0
    /\ buffer_alloc = 0 /\ obs_alloc = 0
    /\ obs = <<>> /\ lli = <<>> /\ ssi = <<>>
    /\ ret = 1 /\ hist = <<>> /\ recs = <<>>
SocdIdle ==
    /\ socd = [data |-> <<>>, values |-> <<>>, wf |-> FALSE,
               coding |-> [order |-> 0, scale |-> 0, init |-> <<>>, resid |-> <<>>]]
    /\ rdr = [state |-> "none", err |-> 0, obs_valid |-> 0, obs_idx |-> 0,
              block_code |-> 0, block_left |-> 0, n_values |-> {}, lli_offset |-> 0,
              data_offset |-> 0, data_end |-> 0, obs |-> <<>>]
    /\ rv = <<>>
    /\ epoc = [spans |-> <<>>, wf |-> FALSE, state |-> "none", ret |-> 0, list |-> <<>>]
    /\ ind = [rle |-> <<>>, n |-> 0, wf |-> FALSE, state |-> "none", ret |-> 0,
              n_values |-> 0, lli |-> <<>>, ssi |-> <<>>]
    /\ leb = [v |-> {}, u |-> {}, enc |-> <<>>, state |-> "idle", val |-> {}, d |-> 0]

\* No srnx_reader is modelled: the specifications of the observation
\* reader, the epoch decoder and the LEB128 decoders start from a reader
\* whose mapped bytes are socd.data, all of them valid data, with the null
\* chunk digest and next_offset 0.
ContIdle == srnx = [state |-> "none"] /\ api = <<>>

(***************************************************************************)
(* Generic helpers.                                                        *)
(***************************************************************************)
Min(a, b) == IF a < b THEN a ELSE b
Max(a, b) == IF a > b THEN a ELSE b

RECURSIVE Rep(_, _)
Rep(c, n) == IF n <= 0 THEN <<>> ELSE <<c>> \o Rep(c, n - 1)

\* 2^n for 0 <= n <= 30.
Pow2(n) == 2 ^ n

(***************************************************************************)
(* 64-bit words.  A word is the set of its one bits, a subset of 0..63      *)
(* (0 = least significant); int64_t values are the same words read as      *)
(* two's complement.                                                       *)
(***************************************************************************)
BitPos == 0 .. 63
U64Zero == {}
\* A byte value 0..255 zero-extended to a word.
U64OfByte(b) == {i \in 0 .. 7 : (b \div Pow2(i)) % 2 = 1}
\* The word with bytes bs[1] (most significant) .. bs[8] (least significant).
U64OfBytes(bs) ==
    {i \in BitPos : (bs[8 - (i \div 8)] \div Pow2(i % 8)) % 2 = 1}
And64(x, y) == x \cap y
Or64(x, y) == x \cup y
Shl64(x, n) == {i + n : i \in {k \in x : k + n <= 63}}
Shr64(x, n) == {i - n : i \in {k \in x : k >= n}}
\* Arithmetic right shift of an int64_t.
Sar64(x, n) == Shr64(x, n) \cup (IF 63 \in x THEN (64 - n) .. 63 ELSE {})
\* x & 255
Low8(x) == x \cap (0 .. 7)

(***************************************************************************)
(* transpose.c: the generic bit-matrix transpose.                          *)
(***************************************************************************)
\* TRANSPOSE_U64(X): the 8x8 bit transpose of a word, three swap stages.
TRANSPOSE_U64(X) ==
    LET s1 == Or64(Or64(
                And64(X, U64OfBytes(<<170, 85, 170, 85, 170, 85, 170, 85>>)),
                Shl64(And64(X, U64OfBytes(<<0, 170, 0, 170, 0, 170, 0, 170>>)), 7)),
                And64(Shr64(X, 7), U64OfBytes(<<0, 170, 0, 170, 0, 170, 0, 170>>)))
        s2 == Or64(Or64(
                And64(s1, U64OfBytes(<<204, 204, 51, 51, 204, 204, 51, 51>>)),
                Shl64(And64(s1, U64OfBytes(<<0, 0, 204, 204, 0, 0, 204, 204>>)), 14)),
                And64(Shr64(s1, 14), U64OfBytes(<<0, 0, 204, 204, 0, 0, 204, 204>>)))
    IN  Or64(Or64(
                And64(s2, U64OfBytes(<<240, 240, 240, 240, 15, 15, 15, 15>>)),
                Shl64(And64(s2, U64OfBytes(<<0, 0, 0, 0, 240, 240, 240, 240>>)), 28)),
                And64(Shr64(s2, 28), U64OfBytes(<<0, 0, 0, 0, 240, 240, 240, 240>>)))

\* The eight iterations "x = (x << 8) | in[rows[ii]]", ii = 0..7, from x = 0.
RECURSIVE GatherFrom(_, _, _, _)
GatherFrom(x, in, rows, ii) ==
    IF ii > 8 THEN x
    ELSE GatherFrom(Or64(Shl64(x, 8), U64OfByte(in[rows[ii] + 1])), in, rows, ii + 1)
Gather(in, rows) == GatherFrom(U64Zero, in, rows, 1)

\* Index read in iteration ii by the register holding the top rows: in[off]
\* (row 0, replayed as the sign) while ii < base - bits, then
\* in[stride*(ii + bits - base) + off].
TopRows(stride, off, bits, base) ==
    [k \in 1 .. 8 |-> IF k - 1 < base - bits THEN off
                      ELSE stride * ((k - 1) + bits - base) + off]
\* Index read by a register holding lower rows: in[stride*(ii + bits - K) + off].
LowRows(stride, off, bits, K) ==
    [k \in 1 .. 8 |-> stride * ((k - 1) + bits - K) + off]

TransposedTop(in, stride, off, bits, base) ==
    TRANSPOSE_U64(Gather(in, TopRows(stride, off, bits, base)))
TransposedLow(in, stride, off, bits, K) ==
    TRANSPOSE_U64(Gather(in, LowRows(stride, off, bits, K)))

\* In the output loop (ii = 7 down to 0, registers shifted right by 8 after
\* each iteration) the register seen at iteration ii.
Lane(x, ii) == Shr64(x, 8 * (7 - ii))
\* Mutant: the shift done on the unsigned word, losing the sign extension.
SignPartUnsigned(x, ii, s) == Shr64(Shl64(Lane(x, ii), 56), s)
\* (int64_t)(x << 56) >> s
SignPart(x, ii, s) == Sar64(Shl64(Lane(x, ii), 56), s)
\* (y & 255) << s
BytePart(y, ii, s) == Shl64(Low8(Lane(y, ii)), s)

\* out[ii + 8*off], ii = 0..7, for the eight columns held in byte off of each
\* row: the register of the top rows gives the sign-extended high part, the
\* registers of the lower rows one byte each, as far as bits needs them.
ColumnValues(in, stride, off, bits) ==
    IF bits <= 8 THEN
        LET x == TransposedTop(in, stride, off, bits, 8)
        IN  [ii \in 0 .. 7 |-> SignPart(x, ii, 56)]
    ELSE IF bits <= 16 THEN
        LET x == TransposedTop(in, stride, off, bits, 16)
            y == TransposedLow(in, stride, off, bits, 8)
        IN  [ii \in 0 .. 7 |-> Or64(SignPart(x, ii, 48), BytePart(y, ii, 0))]
    ELSE IF bits <= 24 THEN
        LET x == TransposedTop(in, stride, off, bits, 24)
            y == TransposedLow(in, stride, off, bits, 16)
            z == TransposedLow(in, stride, off, bits, 8)
        IN  [ii \in 0 .. 7 |->
                Or64(Or64(SignPart(x, ii, 40), BytePart(y, ii, 8)),
                     BytePart(z, ii, 0))]
    ELSE
        LET x == TransposedTop(in, stride, off, bits, 32)
            y == TransposedLow(in, stride, off, bits, 24)
            z == TransposedLow(in, stride, off, bits, 16)
            w == TransposedLow(in, stride, off, bits, 8)
        IN  [ii \in 0 .. 7 |->
                Or64(Or64(Or64(SignPart(x, ii, 32), BytePart(y, ii, 16)),
                          BytePart(z, ii, 8)),
                     BytePart(w, ii, 0))]

\* transpose_8_generic: out[0..7] (out[k] is the result's element k+1).
transpose_8_generic(out, in, bits) ==
    IF bits < 1 THEN out
    ELSE LET g == ColumnValues(in, 1, 0, bits)
         IN  [k \in 1 .. 8 |-> g[k - 1]]

\* transpose_16_generic: out[ii+0] from byte 0 of each row, out[ii+8] from byte 1.
transpose_16_generic(out, in, bits) ==
    IF bits < 1 THEN out
    ELSE LET g == [off \in 0 .. 1 |-> ColumnValues(in, 2, off, bits)]
         IN  [k \in 1 .. 16 |-> g[(k - 1) \div 8][(k - 1) % 8]]

\* transpose_32_generic: out[ii+0], out[ii+8], out[ii+16], out[ii+24] from
\* bytes 0..3 of each row (for bits > 16 in two passes of sixteen columns).
transpose_32_generic(out, in, bits) ==
    IF bits < 1 THEN out
    ELSE LET g == [off \in 0 .. 3 |-> ColumnValues(in, 4, off, bits)]
         IN  [k \in 1 .. 32 |-> g[(k - 1) \div 8][(k - 1) % 8]]

\* transpose_generic: dispatch on count; other counts leave out untouched.
transpose_generic(out, in, bits, count) ==
    IF count = 8 THEN transpose_8_generic(out, in, bits)
    ELSE IF count = 16 THEN transpose_16_generic(out, in, bits)
    ELSE IF count = 32 THEN transpose_32_generic(out, in, bits)
    ELSE out

(***************************************************************************)
(* transpose.c: the AVX2 bit-matrix transpose (x86_64 builds).  A register *)
(* is the set of its one bits, a subset of 0..127 (__m128i) or 0..255      *)
(* (__m256i); byte i of a register is bits 8i .. 8i+7, the 64-bit lane l   *)
(* bits 64l .. 64l+63.                                                     *)
(***************************************************************************)
XmmBits == 0 .. 127
YmmBits == 0 .. 255
\* The set S with its elements enumerated.
Enumerated(S) == {p : p \in S}
\* Byte i of a register as a number 0..255.
RegByte(v, i) ==
    (IF (8 * i) \in v THEN 1 ELSE 0) + (IF (8 * i + 1) \in v THEN 2 ELSE 0)
    + (IF (8 * i + 2) \in v THEN 4 ELSE 0) + (IF (8 * i + 3) \in v THEN 8 ELSE 0)
    + (IF (8 * i + 4) \in v THEN 16 ELSE 0) + (IF (8 * i + 5) \in v THEN 32 ELSE 0)
    + (IF (8 * i + 6) \in v THEN 64 ELSE 0) + (IF (8 * i + 7) \in v THEN 128 ELSE 0)

\* in[k] for k >= 0.  The vector loads fetch 16 or 32 bytes whatever bits
\* is, so they also read bytes after the matrix: the caller's following
\* data, here 255 (all bits set) where tr_in has no more bytes.
AfterMatrix == 255
Mem(in, k) == IF k < Len(in) THEN in[k + 1] ELSE AfterMatrix
MemBit(in, off, g) == (Mem(in, off + (g \div 8)) \div Pow2(g % 8)) % 2 = 1

\* _mm_loadu_si128((const __m128i *)(in + off))
mm_loadu_si128(in, off) == Enumerated({g \in XmmBits : MemBit(in, off, g)})
\* _mm256_lddqu_si256((const __m256i *)(in + off))
mm256_lddqu_si256(in, off) == Enumerated({g \in YmmBits : MemBit(in, off, g)})
\* _mm256_loadu2_m128i(hiaddr, loaddr), given the two loaded halves.
mm256_loadu2_m128i(hi, lo) == lo \cup {g + 128 : g \in hi}
\* _mm256_broadcastsi128_si256(x)
mm256_broadcastsi128_si256(x) == x \cup {g + 128 : g \in x}
\* _mm256_inserti128_si256(v, x, 1)
mm256_inserti128_si256(v, x) == {g \in v : g < 128} \cup {g + 128 : g \in x}
\* _mm256_castsi256_si128(v) and _mm256_extracti128_si256(v, 1)
mm256_castsi256_si128(v) == {g \in v : g < 128}
mm256_extracti128_si256(v) == {g - 128 : g \in {h \in v : h >= 128}}
\* _mm_setr_epi8 / _mm256_setr_epi8: the bytes in memory order.
mm_setr_epi8(bs) == Enumerated({g \in 0 .. 8 * Len(bs) - 1 : MemBit(bs, 0, g)})
\* _mm_set1_epi64x / _mm256_set1_epi64x: the 64-bit word c in each of n lanes.
mm_set1_epi64x(c, n) == {64 * l + q : l \in 0 .. n - 1, q \in c}

\* _mm_shuffle_epi8 / _mm256_shuffle_epi8: within each 128-bit half, byte i
\* becomes byte (perm[i] & 15) of that half, or 0 when perm[i] has bit 7 set.
ShuffledBit(v, s, g) ==
    s < 128 /\ (8 * (16 * (g \div 128) + (s % 16)) + (g % 8)) \in v
mm_shuffle_epi8(v, perm) ==
    Enumerated({g \in YmmBits : ShuffledBit(v, RegByte(perm, g \div 8), g)})
\* _mm_and_si128, _mm_or_si128 and their 256-bit forms.
mm_and_si(v, w) == v \cap w
mm_or_si(v, w) == v \cup w
\* _mm_slli_epi64, _mm_srli_epi64 and their 256-bit forms: each 64-bit lane
\* shifted by n, the bits leaving the lane lost.
mm_slli_epi64(v, n) == {g + n : g \in {h \in v : (h % 64) + n <= 63}}
mm_srli_epi64(v, n) == {g - n : g \in {h \in v : (h % 64) >= n}}
\* _mm_movemask_epi8 / _mm256_movemask_epi8: bit i is the top bit of byte i.
mm_movemask_epi8(v) == {i \in 0 .. 31 : (8 * i + 7) \in v}
\* _mm_movemask_epi32 / _mm256_movemask_epi32: bit i is the top bit of the
\* 32-bit element i.
mm_movemask_epi32(v) == {i \in 0 .. 7 : (32 * i + 31) \in v}
\* A w-bit two's-complement number converted to int64_t.
SignExtend(x, w) == x \cup (IF (w - 1) \in x THEN w .. 63 ELSE {})

\* _mm256_unpacklo_epi8/16/64 and _mm256_unpackhi_*: within each 128-bit
\* half, the elements of size bytes from the low (high) half of a and b,
\* interleaved a, b, a, b, ...
UnpackedBit(a, b, size, hi, g) ==
    (128 * (g \div 128) + (IF hi THEN 64 ELSE 0)
     + 8 * size * ((g % 128) \div (16 * size)) + (g % (8 * size)))
        \in (IF ((g % 128) \div (8 * size)) % 2 = 0 THEN a ELSE b)
mm256_unpack(a, b, size, hi) ==
    Enumerated({g \in YmmBits : UnpackedBit(a, b, size, hi, g)})
\* _mm256_permute4x64_epi64(v, imm): lane l becomes lane (imm >> 2l) & 3.
mm256_permute4x64_epi64(v, imm) ==
    Enumerated({g \in YmmBits :
        (64 * ((imm \div Pow2(2 * (g \div 64))) % 4) + (g % 64)) \in v})
\* _mm256_permutevar8x32_epi32(v, idx): element i becomes element idx[i].
mm256_permutevar8x32_epi32(v, idx) ==
    Enumerated({g \in YmmBits : (32 * idx[(g \div 32) + 1] + (g % 32)) \in v})
\* _mm_shuffle_epi32(x, imm): element i becomes element (imm >> 2i) & 3.
mm_shuffle_epi32(x, imm) ==
    Enumerated({g \in XmmBits :
        (32 * ((imm \div Pow2(2 * (g \div 32))) % 4) + (g % 32)) \in x})
\* _mm256_cvtepi8_epi64, _mm256_cvtepi16_epi64, _mm256_cvtepi32_epi64 and
\* the store to out: the four lowest w-bit elements of x sign-extended to
\* four int64_t.
Element(x, w, i) == {g - w * i : g \in {h \in x : h \div w = i}}
mm256_cvtepi_epi64(x, w) ==
    <<SignExtend(Element(x, w, 0), w), SignExtend(Element(x, w, 1), w),
      SignExtend(Element(x, w, 2), w), SignExtend(Element(x, w, 3), w)>>

shuffle_8 ==
    <<15, 14, 13, 12, 11, 10, 9, 8, 7, 6, 5, 4, 3, 2, 1, 0,
      0, 0, 0, 0, 0, 0, 0, 0, 0, 0, 0, 0, 0, 0, 0>>
shuffle_16 ==
    <<0, 1, 0, 1, 0, 1, 0, 1, 0, 1, 0, 1, 0, 1, 0, 1,
      0, 1, 2, 3, 4, 5, 6, 7, 8, 9, 10, 11, 12, 13, 14, 15>>
shuffle_32 ==
    <<15, 14, 13, 12, 11, 10, 9, 8, 7, 6, 5, 4, 3, 2, 1, 0,
      3, 2, 1, 0, 3, 2, 1, 0, 3, 2, 1, 0, 3, 2, 1, 0,
      7, 6, 5, 4, 11, 10, 9, 8, 15, 14, 13, 12, 0, 0, 0, 0,
      0, 1, 2, 3, 0, 1, 2, 3, 0, 1, 2, 3, 0, 1, 2, 3,
      0, 1, 2, 3, 4, 5, 6, 7, 8, 9, 10, 11, 12, 13, 14, 15>>

\* The exchange "(v & keep) | ((v & move) << n) | ((v >> n) & move)" done
\* in every 64-bit lane.
SwapStage(v, keep, move, n) ==
    mm_or_si(mm_and_si(v, keep),
             mm_or_si(mm_slli_epi64(mm_and_si(v, move), n),
                      mm_and_si(mm_srli_epi64(v, n), move)))
\* x1 (c1, c2), x2 (c3, c4) and x3 (c5, c6) of the 8x8 bit transposes, in
\* registers of w 64-bit lanes.
SwapStages(v, w) ==
    SwapStage(
        SwapStage(
            SwapStage(v,
                mm_set1_epi64x(U64OfBytes(<<170, 85, 170, 85, 170, 85, 170, 85>>), w),
                mm_set1_epi64x(U64OfBytes(<<0, 170, 0, 170, 0, 170, 0, 170>>), w), 7),
            mm_set1_epi64x(U64OfBytes(<<204, 204, 51, 51, 204, 204, 51, 51>>), w),
            mm_set1_epi64x(U64OfBytes(<<0, 0, 204, 204, 0, 0, 204, 204>>), w), 14),
        mm_set1_epi64x(U64OfBytes(<<240, 240, 240, 240, 15, 15, 15, 15>>), w),
        mm_set1_epi64x(U64OfBytes(<<0, 0, 0, 0, 240, 240, 240, 240>>), w), 28)

\* The loop "out[ii] = movemask_epi8(v); v = slli_epi64(v, 1)", ii = 0..7,
\* the mask converted from a w-bit integer.
MaskLoop8(v, w) ==
    [k \in 1 .. 8 |-> SignExtend(mm_movemask_epi8(mm_slli_epi64(v, k - 1)), w)]
\* The loop "out[ii] = movemask_epi32(v); v = slli_epi64(v, 1)", ii = 0..31,
\* the mask sign-extended from its low w bits.
MaskLoop32(v, w) ==
    [k \in 1 .. 32 |-> SignExtend(mm_movemask_epi32(mm_slli_epi64(v, k - 1)), w)]

\* Mutant: the mask of the 128-bit register stored without the int16_t cast.
transpose_8_avx2_uncast(out, in, nbits) ==
    IF nbits <= 16 THEN
        MaskLoop8(mm_shuffle_epi8(mm_loadu_si128(in, 0),
                                  mm_loadu_si128(shuffle_8, 16 - nbits)), 32)
    ELSE
        MaskLoop8(mm_shuffle_epi8(
                      mm256_loadu2_m128i(mm_loadu_si128(in, 0),
                                         mm_loadu_si128(in, nbits - 16)),
                      mm256_loadu2_m128i(mm_loadu_si128(shuffle_8, 32 - nbits),
                                         mm_loadu_si128(shuffle_8, 0))), 32)
\* transpose_8_avx2: one byte per row.  For nbits <= 16 the mask is cast
\* to int16_t, otherwise it is the int of _mm256_movemask_epi8.
transpose_8_avx2(out, in, nbits) ==
    IF nbits <= 16 THEN
        MaskLoop8(mm_shuffle_epi8(mm_loadu_si128(in, 0),
                                  mm_loadu_si128(shuffle_8, 16 - nbits)), 16)
    ELSE
        MaskLoop8(mm_shuffle_epi8(
                      mm256_loadu2_m128i(mm_loadu_si128(in, 0),
                                         mm_loadu_si128(in, nbits - 16)),
                      mm256_loadu2_m128i(mm_loadu_si128(shuffle_8, 32 - nbits),
                                         mm_loadu_si128(shuffle_8, 0))), 32)

\* transpose_16_avx2, nbits <= 8: the stores of t1..t4 to out + 0, 4, 8, 12.
Stores16Narrow(t1) ==
    mm256_cvtepi_epi64(t1, 8)
    \o mm256_cvtepi_epi64(mm_shuffle_epi32(t1, 85), 8)
    \o mm256_cvtepi_epi64(mm_shuffle_epi32(t1, 170), 8)
    \o mm256_cvtepi_epi64(mm_shuffle_epi32(t1, 255), 8)
\* The stores of a 256-bit register of sixteen 16-bit results: its low
\* half to out + o and out + o + 4, its high half 8 further.
StoresHalf(t) ==
    mm256_cvtepi_epi64(t, 16) \o mm256_cvtepi_epi64(mm_shuffle_epi32(t, 238), 16)
\* transpose_16_avx2, 8 < nbits <= 16: t1..t4 from t_w.
Stores16Wide(t_w) ==
    StoresHalf(mm256_castsi256_si128(t_w))
    \o StoresHalf(mm256_extracti128_si256(t_w))
\* transpose_16_avx2, nbits > 16: the loop storing out[ii+0] and out[ii+8].
MaskLoop16(u_pl, u_ph) == MaskLoop8(u_pl, 32) \o MaskLoop8(u_ph, 32)
\* v_ph and v_pl joined and permuted into u_pl and u_ph.
Unpacked16(v_ph, v_pl) ==
    MaskLoop16(mm256_permute4x64_epi64(mm256_unpack(v_ph, v_pl, 8, FALSE), 39),
               mm256_permute4x64_epi64(mm256_unpack(v_ph, v_pl, 8, TRUE), 39))

P1_16 == <<14, 12, 10, 8, 6, 4, 2, 0, 15, 13, 11, 9, 7, 5, 3, 1>>
P2_16 == <<7, 15, 6, 14, 5, 13, 4, 12, 3, 11, 2, 10, 1, 9, 0, 8>>
ByteSwap64 == <<7, 6, 5, 4, 3, 2, 1, 0, 15, 14, 13, 12, 11, 10, 9, 8>>

\* transpose_16_avx2: two bytes per row.
transpose_16_avx2(out, in, nbits) ==
    IF nbits <= 8 THEN
        Stores16Narrow(
            mm_shuffle_epi8(
                SwapStages(
                    mm_shuffle_epi8(
                        mm_shuffle_epi8(mm_loadu_si128(in, 0),
                                        mm_loadu_si128(shuffle_16, nbits * 2)),
                        mm_setr_epi8(P1_16)), 2),
                mm_setr_epi8(ByteSwap64)))
    ELSE IF nbits <= 16 THEN
        Stores16Wide(
            mm_shuffle_epi8(
                mm256_permute4x64_epi64(
                    SwapStages(
                        mm_shuffle_epi8(
                            mm_shuffle_epi8(
                                mm256_loadu2_m128i(mm_loadu_si128(in, 0),
                                                   mm_loadu_si128(in, nbits * 2 - 16)),
                                mm256_loadu2_m128i(
                                    mm_loadu_si128(shuffle_16, nbits * 2 - 16),
                                    mm_loadu_si128(shuffle_16, 16))),
                            mm_setr_epi8(P1_16 \o P1_16)), 4),
                    216),
                mm_setr_epi8(P2_16 \o P2_16)))
    ELSE
        Unpacked16(
            mm_shuffle_epi8(
                mm_shuffle_epi8(
                    IF nbits <= 24
                    THEN mm256_broadcastsi128_si256(mm_loadu_si128(in, 0))
                    ELSE mm256_loadu2_m128i(mm_loadu_si128(in, nbits * 2 - 48),
                                            mm_loadu_si128(in, 0)),
                    IF nbits <= 24
                    THEN mm256_loadu2_m128i(mm_loadu_si128(shuffle_16, nbits * 2 - 32),
                                            mm_loadu_si128(shuffle_16, 0))
                    ELSE mm256_loadu2_m128i(mm_loadu_si128(shuffle_16, 16),
                                            mm_loadu_si128(shuffle_16, nbits * 2 - 48))),
                mm_setr_epi8(P1_16 \o P1_16)),
            mm_shuffle_epi8(mm256_lddqu_si256(in, nbits * 2 - 32),
                            mm_setr_epi8(P1_16 \o P1_16)))

P1_32 == <<12, 8, 4, 0, 13, 9, 5, 1, 14, 10, 6, 2, 15, 11, 7, 3>>
P2_32 == <<4, 0, 5, 1, 6, 2, 7, 3>>

\* transpose_32_avx2, nbits > 8: one register taken through p1, p2, the
\* three exchanges and the byte swap (x4_*).
Transposed32(v) ==
    mm_shuffle_epi8(
        SwapStages(
            mm256_permutevar8x32_epi32(
                mm_shuffle_epi8(v, mm_setr_epi8(P1_32 \o P1_32)), P2_32), 4),
        mm_setr_epi8(ByteSwap64 \o ByteSwap64))

\* 8 < nbits < 17: the stores of t1..t8 made from x5_hi and x5_lo.
Stores32Half(x5_hi, x5_lo) ==
    StoresHalf(mm256_castsi256_si128(x5_hi))
    \o StoresHalf(mm256_castsi256_si128(x5_lo))
    \o StoresHalf(mm256_extracti128_si256(x5_hi))
    \o StoresHalf(mm256_extracti128_si256(x5_lo))
Unpacked32Half(x4_hi, x4_lo) ==
    Stores32Half(mm256_unpack(x4_lo, x4_hi, 1, FALSE), mm256_unpack(x4_lo, x4_hi, 1, TRUE))

\* 16 < nbits: the stores of t1..t8 made from x6_0..x6_3.
Stores32Full(x6_0, x6_1, x6_2, x6_3) ==
    mm256_cvtepi_epi64(mm256_castsi256_si128(x6_0), 32)
    \o mm256_cvtepi_epi64(mm256_castsi256_si128(x6_1), 32)
    \o mm256_cvtepi_epi64(mm256_castsi256_si128(x6_2), 32)
    \o mm256_cvtepi_epi64(mm256_castsi256_si128(x6_3), 32)
    \o mm256_cvtepi_epi64(mm256_extracti128_si256(x6_0), 32)
    \o mm256_cvtepi_epi64(mm256_extracti128_si256(x6_1), 32)
    \o mm256_cvtepi_epi64(mm256_extracti128_si256(x6_2), 32)
    \o mm256_cvtepi_epi64(mm256_extracti128_si256(x6_3), 32)
Unpacked32Words(x5_0, x5_1, x5_2, x5_3) ==
    Stores32Full(mm256_unpack(x5_2, x5_0, 2, FALSE), mm256_unpack(x5_2, x5_0, 2, TRUE),
                 mm256_unpack(x5_3, x5_1, 2, FALSE), mm256_unpack(x5_3, x5_1, 2, TRUE))
Unpacked32Bytes(x4_0, x4_1, x4_2, x4_3) ==
    Unpacked32Words(mm256_unpack(x4_1, x4_0, 1, FALSE), mm256_unpack(x4_1, x4_0, 1, TRUE),
                    mm256_unpack(x4_3, x4_2, 1, FALSE), mm256_unpack(x4_3, x4_2, 1, TRUE))

\* 16 < nbits: v_0 before its shuffle, and the perm it is shuffled with
\* (for nbits < 25 the broadcast of shuffle_32 + 48).
V0Loaded(in, nbits) ==
    IF nbits < 29 THEN mm256_broadcastsi128_si256(mm_loadu_si128(in, 0))
    ELSE mm256_loadu2_m128i(mm_loadu_si128(in, nbits * 4 - 112),
                            mm_loadu_si128(in, 0))
V0Perm(nbits) ==
    IF nbits < 25 THEN mm256_broadcastsi128_si256(mm_loadu_si128(shuffle_32, 48))
    ELSE IF nbits < 29 THEN
        mm256_loadu2_m128i(mm_loadu_si128(shuffle_32, nbits * 4 - 48),
                           mm_loadu_si128(shuffle_32, 48))
    ELSE mm256_loadu2_m128i(mm_loadu_si128(shuffle_32, 64),
                            mm_loadu_si128(shuffle_32, nbits * 4 - 64))
\* 16 < nbits: v_1, shuffled for nbits < 25 and loaded whole otherwise.
V1Loaded(in, nbits) ==
    IF nbits < 21 THEN
        mm_shuffle_epi8(
            mm256_broadcastsi128_si256(mm_loadu_si128(in, 0)),
            mm256_loadu2_m128i(mm_loadu_si128(shuffle_32, nbits * 4 - 16),
                               mm_loadu_si128(shuffle_32, 48)))
    ELSE IF nbits < 25 THEN
        mm_shuffle_epi8(
            mm256_inserti128_si256(
                mm256_broadcastsi128_si256(mm_loadu_si128(in, 0)),
                mm_loadu_si128(in, nbits * 4 - 80)),
            mm256_loadu2_m128i(mm_loadu_si128(shuffle_32, 64),
                               mm_loadu_si128(shuffle_32, nbits * 4 - 32)))
    ELSE mm256_lddqu_si256(in, nbits * 4 - 96)

\* 8 < nbits < 17: v_hi before p1.
VHiLoaded(in, nbits) ==
    IF nbits < 13 THEN
        mm_shuffle_epi8(
            mm256_broadcastsi128_si256(mm_loadu_si128(in, 0)),
            mm256_loadu2_m128i(mm_loadu_si128(shuffle_32, nbits * 4 + 16),
                               mm_loadu_si128(shuffle_32, 48)))
    ELSE
        mm_shuffle_epi8(
            mm256_loadu2_m128i(mm_loadu_si128(in, nbits * 4 - 48),
                               mm_loadu_si128(in, 0)),
            mm256_loadu2_m128i(mm_loadu_si128(shuffle_32, 64),
                               mm_loadu_si128(shuffle_32, nbits * 4)))

\* transpose_32_avx2: four bytes per row.  "movemask << 28 >> 28" keeps
\* the mask's low four bits as a signed number (the compiler's arithmetic
\* shift), "(char)movemask" its low eight.
transpose_32_avx2(out, in, nbits) ==
    IF nbits < 1 THEN out
    ELSE IF nbits < 5 THEN
        MaskLoop32(mm_shuffle_epi8(mm_loadu_si128(in, 0),
                                   mm_loadu_si128(shuffle_32, 16 - nbits * 4)), 4)
    ELSE IF nbits < 9 THEN
        MaskLoop32(mm_shuffle_epi8(
                       mm256_loadu2_m128i(mm_loadu_si128(in, 0),
                                          mm_loadu_si128(in, nbits * 4 - 16)),
                       mm256_loadu2_m128i(mm_loadu_si128(shuffle_32, 32 - nbits * 4),
                                          mm_loadu_si128(shuffle_32, 0))), 8)
    ELSE IF nbits < 17 THEN
        Unpacked32Half(Transposed32(VHiLoaded(in, nbits)),
                       Transposed32(mm256_lddqu_si256(in, nbits * 4 - 32)))
    ELSE
        Unpacked32Bytes(
            Transposed32(mm_shuffle_epi8(V0Loaded(in, nbits), V0Perm(nbits))),
            Transposed32(V1Loaded(in, nbits)),
            Transposed32(mm256_lddqu_si256(in, nbits * 4 - 64)),
            Transposed32(mm256_lddqu_si256(in, nbits * 4 - 32)))

\* transpose_avx2: dispatch on count; other counts leave out untouched.
transpose_avx2(out, in, bits, count) ==
    IF count = 8 THEN transpose_8_avx2(out, in, bits)
    ELSE IF count = 16 THEN transpose_16_avx2(out, in, bits)
    ELSE IF count = 32 THEN transpose_32_avx2(out, in, bits)
    ELSE out

\* __builtin_cpu_supports("avx2"): the processors on which transpose_avx2
\* can run.
cpu_supports_avx2 == TRUE
\* The values of TRANSPOSE_FORCE and of transpose_select's argument; NULL
\* when the variable is unset.
Versions == {"NULL", "generic", "avx2", "sse2"}
\* resolve_transpose(version), x86_64 build.
resolve_transpose(v) ==
    IF v # "NULL" /\ v = "generic" THEN "generic"
    ELSE IF cpu_supports_avx2 \/ (v # "NULL" /\ v = "avx2") THEN "avx2"
    ELSE "generic"

(***************************************************************************)
(* transpose_test.c: the truth table and the test input built from it.     *)
(***************************************************************************)
\* truth[32], each constant as its four bytes, most significant first.
truth ==
    << <<85, 85, 85, 85>>, <<51, 51, 51, 51>>, <<15, 15, 15, 15>>,
       <<0, 255, 0, 255>>, <<0, 0, 255, 255>>, <<170, 170, 170, 170>>,
       <<204, 204, 204, 204>>, <<240, 240, 240, 240>>, <<255, 0, 255, 0>>,
       <<255, 255, 0, 0>>, <<0, 0, 255, 255>>, <<0, 255, 255, 0>>,
       <<15, 240, 15, 240>>, <<60, 60, 60, 60>>, <<102, 102, 102, 102>>,
       <<255, 255, 255, 255>>,
       <<18, 52, 86, 120>>, <<49, 65, 89, 39>>, <<202, 254, 186, 190>>,
       <<202, 254, 208, 13>>, <<71, 73, 70, 56>>, <<137, 80, 78, 71>>,
       <<77, 84, 104, 100>>, <<35, 33, 32, 47>>, <<127, 69, 76, 70>>,
       <<37, 80, 68, 70>>, <<25, 84, 1, 25>>, <<74, 111, 121, 33>>,
       <<73, 73, 42, 0>>, <<77, 77, 0, 42>>, <<87, 65, 68, 51>>,
       <<208, 207, 17, 224>> >>

\* (truth[jj] >> p) & 1 for 0 <= p <= 31.
TruthBit(jj, p) == (truth[jj + 1][4 - (p \div 8)] \div Pow2(p % 8)) % 2

\* Byte b of row ii of the 32-column test input: column jj has bit
\* (truth[jj] >> (31 - ii)) & 1, the lowest column in the byte's MSB.
TruthByte(ii, b) ==
    LET Bit(c) == TruthBit(8 * b + c, 31 - ii) * Pow2(7 - c)
    IN  Bit(0) + Bit(1) + Bit(2) + Bit(3) + Bit(4) + Bit(5) + Bit(6) + Bit(7)

\* input_8, input_16, input_32: 32 rows of count/8 bytes.
TruthInput(count) ==
    [k \in 1 .. 32 * (count \div 8) |->
        TruthByte((k - 1) \div (count \div 8), (k - 1) % (count \div 8))]

(***************************************************************************)
(* Specification SpecTr: one transpose() call on one input matrix.         *)
(***************************************************************************)
\* A matrix of bits rows whose byte k (from 0) is given by Byte(k).
RowPattern(count, bits, r) ==
    [k \in 1 .. bits * (count \div 8) |->
        IF (k - 1) \div (count \div 8) = r THEN 255 ELSE 0]
ColPattern(count, bits, j) ==
    [k \in 1 .. bits * (count \div 8) |->
        IF (k - 1) % (count \div 8) = j \div 8 THEN Pow2(7 - (j % 8)) ELSE 0]
TrInputs(count, bits) ==
    {TruthInput(count)}
    \cup {[k \in 1 .. bits * (count \div 8) |-> v] : v \in {0, 165}}
    \cup {RowPattern(count, bits, r) : r \in {0, bits - 1}}
    \cup {ColPattern(count, bits, j) : j \in {0, count - 1}}

\* transpose_init() has run with TRANSPOSE_FORCE unset; with the variable set
\* to v it leaves what transpose_select(v) leaves.
InitTr ==
    /\ tr_count \in {8, 16, 32}
    /\ tr_bits \in 1 .. 32
    /\ tr_in \in TrInputs(tr_count, tr_bits)
    /\ tr_out = <<>>
    /\ transpose = resolve_transpose("NULL")
    /\ FxIdle /\ RnxIdle /\ SocdIdle /\ ContIdle

\* transpose_select(version)
TransposeSelect ==
    /\ tr_out = <<>>
    /\ \E v \in Versions : transpose' = resolve_transpose(v)
    /\ UNCHANGED <<tr_in, tr_bits, tr_count, tr_out, fxVars, rnxVars, socdVars, contVars>>

\* transpose(out, in, bits, count) through the selected implementation.
Transpose ==
    /\ tr_out = <<>>
    /\ tr_out' = IF transpose = "avx2"
                  THEN transpose_avx2([k \in 1 .. tr_count |-> U64Zero],
                                      tr_in, tr_bits, tr_count)
                  ELSE transpose_generic([k \in 1 .. tr_count |-> U64Zero],
                                         tr_in, tr_bits, tr_count)
    /\ UNCHANGED <<tr_in, tr_bits, tr_count, transpose, fxVars, rnxVars, socdVars, contVars>>

NextTr == TransposeSelect \/ Transpose
SpecTr == InitTr /\ [][NextTr]_vars

\* Bit of input row r, column j: rows of count/8 bytes, MSB = lowest column.
InBit(in, count, r, j) ==
    (in[r * (count \div 8) + (j \div 8) + 1] \div Pow2(7 - (j % 8))) % 2 = 1

\* The bits-bit two's-complement number of column j (row 0 the most
\* significant bit), sign-extended to 64 bits.
ColumnNumber(in, bits, count, j) ==
    {i \in BitPos : IF i < bits THEN InBit(in, count, bits - 1 - i, j)
                     ELSE InBit(in, count, 0, j)}

\* truth[j] >> (32 - bits) with an arithmetic shift, as an int64_t.
TruthShifted(j, bits) ==
    {i \in BitPos : IF i + (32 - bits) <= 31 THEN TruthBit(j, i + 32 - bits) = 1
                     ELSE TruthBit(j, 31) = 1}

\* C9: after transpose(out, in, bits, count) every out[j], j < count, is the
\* bits-bit two's-complement number formed by column j of the input rows,
\* sign-extended to 64 bits; on the truth-table input this is
\* truth[j] >> (32 - bits).
C9_TransposeColumns ==
    tr_out # <<>> =>
        /\ Len(tr_out) = tr_count
        /\ \A j \in 0 .. tr_count - 1 :
            tr_out[j + 1] = ColumnNumber(tr_in, tr_bits, tr_count, j)
        /\ tr_in = TruthInput(tr_count) =>
            \A j \in 0 .. tr_count - 1 : tr_out[j + 1] = TruthShifted(j, tr_bits)

\* C9 witness: a 32-column call on the truth-table input with 25..32 rows,
\* where some result is negative, has returned.
C9_Witness ==
    /\ tr_out # <<>> /\ tr_count = 32 /\ tr_bits > 24
    /\ tr_in = TruthInput(32)
    /\ \E j \in 0 .. 31 : 63 \in tr_out[j + 1]

(***************************************************************************)
(* Characters and wide integers.  Text is a sequence of one-character      *)
(* strings.  An int64_t that may exceed 32 bits is a pair <<hi, lo>>        *)
(* standing for hi * 10^6 + lo with 0 <= lo < 10^6.                         *)
(***************************************************************************)
Digits == {"0", "1", "2", "3", "4", "5", "6", "7", "8", "9"}
NL == "\n"

\* The character code, for the characters that occur in the modelled inputs.
Ord(c) ==
    CASE c = "0" -> 48 [] c = "1" -> 49 [] c = "2" -> 50 [] c = "3" -> 51
      [] c = "4" -> 52 [] c = "5" -> 53 [] c = "6" -> 54 [] c = "7" -> 55
      [] c = "8" -> 56 [] c = "9" -> 57 [] c = " " -> 32 [] c = "-" -> 45
      [] c = "." -> 46 [] c = NL -> 10 [] c = ">" -> 62 [] c = "G" -> 71
      [] c = "R" -> 82 [] c = "E" -> 69 [] c = "X" -> 88

Limb == 10 ^ 6
BigNorm(h, l) == <<h + (l \div Limb), l % Limb>>
BigZero == <<0, 0>>
BigNeg(a) == BigNorm(-a[1], -a[2])
\* a * 10 + d
BigMulAdd(a, d) == BigNorm(a[1] * 10, a[2] * 10 + d)
\* 10^k * d as a wide integer, 0 <= k <= 12
BigDigit(k, d) == IF k >= 6 THEN BigNorm((10 ^ (k - 6)) * d, 0) ELSE BigNorm(0, (10 ^ k) * d)
BigAdd(a, b) == BigNorm(a[1] + b[1], a[2] + b[2])

\* The character at 0-based offset i of text s.
At(s, i) == s[i + 1]

(***************************************************************************)
(* rinex_p.c / rinex_parse.c: parse_fixed and rinex_parse_obs.             *)
(***************************************************************************)
EINVAL == "EINVAL"

\* "while ((ii < lim) && (start[ii] == ' ')) ++ii": the index it stops at.
RECURSIVE SkipSpaces(_, _, _, _)
SkipSpaces(s, o, ii, lim) ==
    IF ii < lim /\ At(s, o + ii) = " " THEN SkipSpaces(s, o, ii + 1, lim) ELSE ii

\* The digit loop up to the decimal point: <<ok, accum>>.
RECURSIVE IntDigits(_, _, _, _, _)
IntDigits(s, o, ii, lim, accum) ==
    IF ii >= lim THEN <<TRUE, accum>>
    ELSE IF At(s, o + ii) \notin Digits THEN <<FALSE, accum>>
    ELSE IntDigits(s, o, ii + 1, lim, BigMulAdd(accum, Ord(At(s, o + ii)) - 48))

\* The digit loop after the decimal point: <<ii, accum>> where it stops.
RECURSIVE FracDigits(_, _, _, _, _)
FracDigits(s, o, ii, width, accum) ==
    IF ii < width /\ At(s, o + ii) \in Digits
    THEN FracDigits(s, o, ii + 1, width, BigMulAdd(accum, Ord(At(s, o + ii)) - 48))
    ELSE <<ii, accum>>

\* The trailing loop: <<"ok", accum>>, <<"einval", _>>, or <<"hang", _>> when
\* it meets a newline, where the index no longer advances.
RECURSIVE Trailing(_, _, _, _, _)
Trailing(s, o, ii, width, accum) ==
    IF ii >= width THEN <<"ok", accum>>
    ELSE IF At(s, o + ii) = NL THEN <<"hang", accum>>
    ELSE IF At(s, o + ii) # " " THEN <<"einval", accum>>
    ELSE Trailing(s, o, ii + 1, width, BigMulAdd(accum, 0))

\* Mutant: the minus sign is consumed but the result is not negated.
FixedResultNoNegate(negate, tr) ==
    IF tr[1] = "einval" THEN [err |-> EINVAL, value |-> BigZero]
    ELSE IF tr[1] = "hang" THEN [err |-> "hang", value |-> BigZero]
    ELSE [err |-> "ok", value |-> tr[2]]
\* "*p_out = negate ? -accum : accum; return 0" after the trailing loop tr.
FixedResult(negate, tr) ==
    IF tr[1] = "einval" THEN [err |-> EINVAL, value |-> BigZero]
    ELSE IF tr[1] = "hang" THEN [err |-> "hang", value |-> BigZero]
    ELSE [err |-> "ok", value |-> IF negate THEN BigNeg(tr[2]) ELSE tr[2]]

\* From the fraction digits on, fr = <<ii, accum>> where they stop.
FixedTail(s, o, width, negate, fr) ==
    FixedResult(negate, Trailing(s, o, fr[1], width, fr[2]))

\* From the decimal point on, ip = <<ok, accum>> of the integer digits.
FixedPoint(s, o, width, point, negate, ip) ==
    IF ~ip[1] \/ At(s, o + point - 1) # "." THEN [err |-> EINVAL, value |-> BigZero]
    ELSE FixedTail(s, o, width, negate, FracDigits(s, o, point, width, ip[2]))

\* From the optional minus sign on, i1 the index after the leading spaces.
FixedSigned(s, o, width, point, i1, negate) ==
    FixedPoint(s, o, width, point, negate,
               IntDigits(s, o, IF negate THEN i1 + 1 ELSE i1, point - 1, BigZero))
FixedSkipped(s, o, width, point, i1) ==
    FixedSigned(s, o, width, point, i1, i1 < point - 1 /\ At(s, o + i1) = "-")

\* parse_fixed(&out, s + o, width, frac): [err, value]; err is "ok" (0),
\* EINVAL, or "hang" when the call does not return.
parse_fixed(s, o, width, frac) ==
    FixedSkipped(s, o, width, width - frac, SkipSpaces(s, o, 0, width - frac - 1))

\* rinex_parse_obs(c): ret = "value" with the value returned, "INT64_MIN"
\* on a parse error, "hang" when parse_fixed does not return.
ParseObsResult(r) ==
    IF r.err = "hang" THEN [ret |-> "hang", value |-> BigZero]
    ELSE IF r.err # "ok" THEN [ret |-> "INT64_MIN", value |-> BigZero]
    ELSE [ret |-> "value", value |-> r.value]
rinex_parse_obs(c) == ParseObsResult(parse_fixed(c, 0, 14, 3))

(***************************************************************************)
(* rinex_parse.c: rnx_parse_obs, the portable implementation.              *)
(***************************************************************************)
\* DVAL(X)
DVAL(X) == IF X = " " THEN 0 ELSE Ord(X) - 48

\* "for (; kk < 10; ++kk) { if (*obs < '0' || *obs > '9') break; ... }"
RECURSIVE ObsDigits(_, _, _)
ObsDigits(s, o, kk) ==
    IF kk < 10 /\ At(s, o + kk) \in Digits THEN ObsDigits(s, o, kk + 1) ELSE kk

\* "for (; kk < 16; ++kk) buf[kk] = (*obs == '\n') ? ' ' : *obs++" from
\* kk = 11 with obs at offset p: <<buf[11..15], final offset>>.
RECURSIVE ObsTail(_, _, _, _)
ObsTail(s, p, kk, acc) ==
    IF kk >= 16 THEN <<acc, p>>
    ELSE IF At(s, p) = NL THEN ObsTail(s, p, kk + 1, Append(acc, " "))
    ELSE ObsTail(s, p + 1, kk + 1, Append(acc, At(s, p)))

\* The weighted digit sum over buf[0..9] and buf[11..13].
RECURSIVE ObsSum(_, _, _)
ObsSum(buf, kk, acc) ==
    IF kk > 13 THEN acc
    ELSE IF kk = 10 THEN ObsSum(buf, kk + 1, acc)
    ELSE ObsSum(buf, kk + 1,
                BigAdd(acc, BigDigit(IF kk < 10 THEN 12 - kk ELSE 13 - kk,
                                     DVAL(At(buf, kk)))))

\* The stores after the field is accepted: buf[0..9] are the characters
\* before the point, tl = <<buf[11..15], offset of obs afterwards>>.
ObsStored(s, o, tl) ==
    [ret |-> "ok", adv |-> tl[2] - o,
     value |-> ObsSum([k \in 1 .. 10 |-> At(s, o + k - 1)] \o <<".">> \o tl[1], 0, BigZero),
     lli |-> tl[1][4], ssi |-> tl[1][5]]

\* After the leading spaces (k1 of them): the optional '-', the digits up
\* to column 10 and the decimal point.
ObsSigned(s, o, k3) ==
    IF k3 # 10 \/ At(s, o + 10) # "."
    THEN [ret |-> "NULL", adv |-> 0, value |-> BigZero, lli |-> " ", ssi |-> " "]
    ELSE ObsStored(s, o, ObsTail(s, o + 11, 11, <<>>))
ObsSkipped(s, o, k1) ==
    ObsSigned(s, o, ObsDigits(s, o, IF k1 < 10 /\ At(s, o + k1) = "-" THEN k1 + 1 ELSE k1))

\* rnx_parse_obs(p, s + o, nn): ret = "NULL" on rejection, else "ok" with
\* adv = characters consumed and the value, LLI and SSI stored at index nn.
rnx_parse_obs(s, o) == ObsSkipped(s, o, SkipSpaces(s, o, 0, 10))

(***************************************************************************)
(* Specification SpecFx: the two field parsers applied to one 16-character *)
(* observation field.                                                      *)
(***************************************************************************)
\* rinex_test.c: obs_test[], the value as a wide integer.
obs_test ==
    << [obs |-> <<" ", " ", "2", "3", "6", "1", "9", "0", "9", "5", ".", "4", "5", "0", " ", " ">>,
        value |-> <<23619, 95450>>],
       [obs |-> <<" ", " ", " ", " ", " ", " ", " ", " ", " ", " ", ".", "3", "0", "0", " ", "8">>,
        value |-> <<0, 300>>],
       [obs |-> <<" ", " ", " ", " ", " ", " ", " ", " ", " ", "-", ".", "3", "5", "3", " ", " ">>,
        value |-> BigNeg(<<0, 353>>)],
       [obs |-> <<" ", " ", " ", " ", "-", "5", "3", "8", "7", "5", ".", "6", "3", "2", " ", "8">>,
        value |-> BigNeg(<<53, 875632>>)] >>

\* Integer parts, fractions and LLI/SSI pairs the generated fields draw from.
FxIntParts ==
    { <<>>, <<"0">>, <<"7">>, <<"4", "2">>, <<"5", "3", "8", "7", "5">>,
      <<"2", "3", "6", "1", "9", "0", "9", "5">>,
      <<"9", "9", "9", "9", "9", "9", "9", "9", "9">> }
FxFracParts ==
    { <<"0", "0", "0">>, <<"4", "5", "0">>, <<"3", "5", "3">>, <<"9", "9", "9">> }
FxFlags == { <<" ", " ">>, <<" ", "8">>, <<"1", " ">>, <<"4", "7">> }

\* A well-formed F14.3 field followed by LLI and SSI.
MkField(neg, int, frac, flags) ==
    Rep(" ", 10 - Len(int) - (IF neg THEN 1 ELSE 0))
        \o (IF neg THEN <<"-">> ELSE <<>>) \o int \o <<".">> \o frac \o flags

\* Fields a parser must reject: all blank, no decimal point, a sign after
\* the digits.
FxMalformed ==
    { Rep(" ", 16),
      <<" ", " ", " ", " ", " ", " ", " ", "1", "2", "3", "4", "5", "6", "7", " ", " ">>,
      <<" ", " ", " ", " ", " ", " ", " ", " ", "5", "-", ".", "0", "0", "0", " ", " ">> }

\* Fields whose fraction has fewer than three digits: int, '.', the digits
\* frac, then spaces up to the field width, or a newline (the line ends
\* inside the field) and the next line's first characters.
MkShortField(neg, int, frac, newline) ==
    Rep(" ", 10 - Len(int) - (IF neg THEN 1 ELSE 0))
        \o (IF neg THEN <<"-">> ELSE <<>>) \o int \o <<".">> \o frac
        \o (IF newline THEN <<NL>> \o Rep("G", 4 - Len(frac))
                       ELSE Rep(" ", 5 - Len(frac)))
FxShortFracs == { <<>>, <<"5">>, <<"1", "2">> }
FxShort ==
    { MkShortField(neg, int, frac, newline) :
        neg \in BOOLEAN, int \in {<<>>, <<"7">>, <<"4", "2">>},
        frac \in FxShortFracs, newline \in BOOLEAN }

FxFields ==
    { MkField(neg, int, frac, flags) :
        neg \in BOOLEAN, int \in FxIntParts, frac \in FxFracParts, flags \in FxFlags }
    \cup { obs_test[k].obs : k \in 1 .. 4 }
    \cup FxMalformed
    \cup FxShort

InitFx ==
    /\ fx_field \in FxFields
    /\ fx_ret = [ret |-> "none", value |-> <<0, 0>>]
    /\ fx_obs = [ret |-> "none", adv |-> 0, value |-> <<0, 0>>, lli |-> " ", ssi |-> " "]
    /\ TrIdle /\ RnxIdle /\ SocdIdle /\ ContIdle

\* rinex_parse_obs(fx_field)
ParseObs ==
    /\ fx_ret.ret = "none"
    /\ fx_ret' = rinex_parse_obs(fx_field)
    /\ UNCHANGED <<fx_field, fx_obs, trVars, rnxVars, socdVars, contVars>>

\* rnx_parse_obs(p, fx_field, nn): what it stores in obs[nn], lli[nn], ssi[nn].
ParseObsField ==
    /\ fx_obs.ret = "none"
    /\ fx_obs' = rnx_parse_obs(fx_field, 0)
    /\ UNCHANGED <<fx_field, fx_ret, trVars, rnxVars, socdVars, contVars>>

NextFx == ParseObs \/ ParseObsField
SpecFx == InitFx /\ [][NextFx]_vars

\* The field is F14.3: spaces, an optional '-', digits up to column 10, '.',
\* three fractional digits.
IsF14_3(f) ==
    /\ Len(f) = 16
    /\ At(f, 10) = "."
    /\ \A i \in 11 .. 13 : At(f, i) \in Digits
    /\ \E a \in 0 .. 10 : \E b \in a .. a + 1 :
          /\ b <= 10
          /\ \A i \in 0 .. a - 1 : At(f, i) = " "
          /\ b = a + 1 => At(f, a) = "-"
          /\ \A i \in b .. 9 : At(f, i) \in Digits

\* The decimal number an F14.3 field denotes, times 1000.
RECURSIVE DigitString(_, _, _)
DigitString(f, i, acc) ==
    IF i > 13 THEN acc
    ELSE IF At(f, i) \in Digits
         THEN DigitString(f, i + 1, BigMulAdd(acc, Ord(At(f, i)) - Ord("0")))
         ELSE DigitString(f, i + 1, acc)
F14_3Times1000(f) ==
    IF \E i \in 0 .. 9 : At(f, i) = "-"
    THEN BigNeg(DigitString(f, 0, BigZero))
    ELSE DigitString(f, 0, BigZero)

\* C8: rinex_parse_obs on a 14-character F14.3 field followed by LLI and SSI
\* returns the signed value times 1000; the four rinex_test.c vectors give
\* 23619095450, 300, -353 and -53875632.
C8_ParseObsValue ==
    fx_ret.ret # "none" =>
        /\ IsF14_3(fx_field) =>
               fx_ret = [ret |-> "value", value |-> F14_3Times1000(fx_field)]
        /\ \A k \in 1 .. 4 :
               fx_field = obs_test[k].obs =>
                   fx_ret = [ret |-> "value", value |-> obs_test[k].value]

\* C8 witness: the call on the negative test vector "    -53875.632 8" has
\* returned a negative value.
C8_Witness ==
    /\ fx_field = obs_test[4].obs
    /\ fx_ret.ret = "value"
    /\ fx_ret.value[1] < 0

\* C2: the value stored for a non-blank F14.3 observation field is the
\* field's number times 1000, for negative as well as non-negative numbers
\* and for a blank integer part.
C2_StoredValue ==
    (fx_obs.ret # "none" /\ IsF14_3(fx_field)) =>
        /\ fx_obs.ret = "ok"
        /\ fx_obs.value = F14_3Times1000(fx_field)

(***************************************************************************)
(* rinex.h, rinex_p.h: status codes and sizes.                             *)
(***************************************************************************)
RINEX_SUCCESS == 1
RINEX_EOF == 0
RINEX_ERR_SYSTEM == -1
RINEX_ERR_BAD_FORMAT == -2

\* BLOCK_SIZE, scaled down from 1024 * 1024 - RINEX_EXTRA: the number of
\* bytes a stream window holds after advance().
BLOCK_SIZE == 400
\* Length of the file header, which rinex_open leaves in parse_ofs and
\* buffer_alloc.
HeaderLen == 16
\* obs_alloc after rnx_open_v2 / rnx_open_v3.
OBS_ALLOC_INIT == 500

(***************************************************************************)
(* rinex_stdio.c: the stream.  stream = [start, size]: the window holds    *)
(* file bytes start .. start + size - 1 at buffer offsets 0 .. size - 1.   *)
(***************************************************************************)
\* stream->buffer[i]; bytes past size are indeterminate ("?").
SBuf(st, i) == IF i < st.size THEN file[st.start + i + 1] ELSE "?"

\* rinex_stdio_advance(stream, req_size, step): [err, st].
rinex_stdio_advance(st, req_size, step) ==
    IF step > st.size THEN [err |-> EINVAL, st |-> st]
    ELSE LET kept == st.size - step
             nbr == IF req_size > kept
                    THEN Min(req_size - kept, Len(file) - (st.start + st.size))
                    ELSE 0
         IN  [err |-> "ok", st |-> [start |-> st.start + step, size |-> kept + nbr]]

(***************************************************************************)
(* rinex_p.c: newline search and unsigned fields.                          *)
(***************************************************************************)
\* rnx_get_n_newlines(p, whence, n_lines): offset just past the n_lines-th
\* newline at or after whence, or 0 when the window holds fewer (the count
\* found starts at 1, so n_lines = 0 is never matched).
rnx_get_n_newlines(st, whence, n_lines) ==
    LET nls == {i \in whence .. st.size - 1 : SBuf(st, i) = NL}
        hit == {i \in nls : Cardinality({q \in nls : q <= i}) = n_lines}
    IN  IF hit = {} THEN 0 ELSE (CHOOSE i \in hit : TRUE) + 1

\* One pass of rnx_get_newlines over the current window: <<jj, body_ofs>>.
HeaderPass(st, n_body, ii) ==
    IF ii > 0 THEN <<rnx_get_n_newlines(st, ii, n_body), ii>> ELSE <<0, 0>>
NewlinePass(st, whence, n_header, n_body) ==
    IF n_header > 0
    THEN HeaderPass(st, n_body, rnx_get_n_newlines(st, whence, n_header))
    ELSE <<rnx_get_n_newlines(st, whence, n_body), 0>>

\* The recursive call after advance: whence is 0, so a second miss is EOF.
SecondPass(st, p2) ==
    [res |-> IF p2[1] > 0 THEN p2[1] ELSE RINEX_EOF, st |-> st, whence |-> 0,
     body_ofs |-> p2[2], advanced |-> TRUE]
Advanced(st, whence, n_header, n_body, adv) ==
    IF adv.err # "ok"
    THEN [res |-> RINEX_ERR_SYSTEM, st |-> st, whence |-> whence, body_ofs |-> 0,
          advanced |-> FALSE]
    ELSE SecondPass(adv.st, NewlinePass(adv.st, 0, n_header, n_body))
FirstPass(st, whence, n_header, n_body, p1) ==
    IF p1[1] > 0
    THEN [res |-> p1[1], st |-> st, whence |-> whence, body_ofs |-> p1[2],
          advanced |-> FALSE]
    ELSE IF whence = 0
    THEN [res |-> RINEX_EOF, st |-> st, whence |-> whence, body_ofs |-> p1[2],
          advanced |-> FALSE]
    ELSE Advanced(st, whence, n_header, n_body,
                  rinex_stdio_advance(st, BLOCK_SIZE, whence))

\* rnx_get_newlines(p, &whence, &body_ofs, n_header, n_body):
\* [res, st, whence, body_ofs, advanced].  When the lines are not in the
\* window and whence > 0, the stream is advanced by whence and the search
\* restarts at 0.
rnx_get_newlines(st, whence, n_header, n_body) ==
    FirstPass(st, whence, n_header, n_body, NewlinePass(st, whence, n_header, n_body))

\* parse_uint(&out, st.buffer + o, width): [err, value].
RECURSIVE UintDigits(_, _, _, _)
UintDigits(st, o, width, value) ==
    IF width <= 0 THEN [err |-> "ok", value |-> value]
    ELSE IF SBuf(st, o) \notin Digits THEN [err |-> EINVAL, value |-> 0]
    ELSE UintDigits(st, o + 1, width - 1, value * 10 + Ord(SBuf(st, o)) - 48)
RECURSIVE UintSpaces(_, _, _)
UintSpaces(st, o, width) ==
    IF width > 0 /\ SBuf(st, o) = " " THEN UintSpaces(st, o + 1, width - 1)
    ELSE <<o, width>>
UintSkipped(st, sk) == UintDigits(st, sk[1], sk[2], 0)
parse_uint(st, o, width) == UintSkipped(st, UintSpaces(st, o, width))

\* The window as text from offset o, for the field parsers: characters
\* o .. o + n - 1 of stream->buffer.
SText(st, o, n) == [k \in 1 .. n |-> SBuf(st, o + k - 1)]

(***************************************************************************)
(* rinex_parse.c: reading the observations of one record.  The accumulator *)
(* a of the loops is a record:                                             *)
(*   pos     offset of the obs pointer in stream->buffer                   *)
(*   out     the bytes written through the buffer pointer, from offset 0   *)
(*   blen    p->base.buffer_len                                            *)
(*   balloc  p->buffer_alloc        oalloc  p->obs_alloc                   *)
(*   vals, llis, ssis   what was stored in obs[0..nn-1], lli[], ssi[]      *)
(*   mask, jj           obs_mask and the field index of the current        *)
(*                      satellite                                          *)
(*   err     RINEX_SUCCESS while running, else the status returned         *)
(***************************************************************************)
\* !memcmp(obs, blank, 16)
RECURSIVE BlankRun(_, _, _)
BlankRun(st, o, n) ==
    IF n = 0 THEN TRUE
    ELSE IF SBuf(st, o) # " " THEN FALSE
    ELSE BlankRun(st, o + 1, n - 1)
IsBlank16(st, o) == BlankRun(st, o, 16)

\* A char holding the int x: the byte value 0..255.
ByteOf(x) == x % 256

\* (sv_name[1] - '0') * 10 + sv_name[2] - '0'
SvnOf(st, o) == ByteOf((Ord(SBuf(st, o + 1)) - 48) * 10 + Ord(SBuf(st, o + 2)) - 48)

\* p->base.n_obs[sv_name[0] & 31]
NObsOf(st, o) == n_obs[Ord(SBuf(st, o)) % 32]

\* Bit b of the byte m, and "m |= 1 << b".
BitOf(m, b) == (m \div Pow2(b)) % 2
SetBit(m, b) == IF BitOf(m, b) = 1 THEN m ELSE m + Pow2(b)

\* "if (nn >= p->obs_alloc) p->obs_alloc *= 2", then rnx_parse_obs at a.pos
\* with result r, "obs_mask |= 1 << (jj & 7); nn++".
Stored(a, r, grown) ==
    IF r.ret = "NULL"
    THEN [a EXCEPT !.oalloc = grown, !.err = RINEX_ERR_BAD_FORMAT]
    ELSE [a EXCEPT !.oalloc = grown,
                   !.pos = a.pos + r.adv,
                   !.vals = Append(a.vals, r.value),
                   !.llis = Append(a.llis, r.lli),
                   !.ssis = Append(a.ssis, r.ssi),
                   !.mask = SetBit(a.mask, a.jj % 8)]
StoreObs(st, a) ==
    Stored(a, rnx_parse_obs(SText(st, a.pos, 16), 0),
           IF Len(a.vals) >= a.oalloc THEN a.oalloc * 2 ELSE a.oalloc)

\* "*buffer++ = obs_mask; obs_mask = 0"
FlushMask(a) == [a EXCEPT !.out = Append(a.out, a.mask), !.mask = 0]

\* The field loop of rnx_read_v3_observations for one satellite with n
\* declared observations, from field a.jj; stops at a newline (break), at
\* jj = n, or on an error.  A blank field continues without reaching the
\* flush; after a stored field the mask byte is flushed when the field is
\* the last or the eighth of its byte.
RECURSIVE V3Fields(_, _, _)
V3Flushed(st, c, n) == V3Fields(st, [c EXCEPT !.jj = c.jj + 1], n)
V3Stored(st, b, n) ==
    IF b.err # RINEX_SUCCESS THEN b
    ELSE V3Flushed(st, IF (b.jj % 8 = 7) \/ (b.jj + 1 = n) THEN FlushMask(b) ELSE b, n)
V3Fields(st, a, n) ==
    IF a.jj >= n THEN a
    ELSE IF SBuf(st, a.pos) = NL THEN a
    ELSE IF IsBlank16(st, a.pos)
    THEN V3Fields(st, [a EXCEPT !.pos = a.pos + 16, !.jj = a.jj + 1], n)
    ELSE V3Stored(st, StoreObs(st, a), n)

\* "for (; jj < n_obs; jj += 8) { *buffer++ = obs_mask; obs_mask = 0; }"
RECURSIVE V3FlushRest(_, _)
V3FlushRest(a, n) ==
    IF a.jj >= n THEN a
    ELSE V3FlushRest([FlushMask(a) EXCEPT !.jj = a.jj + 8], n)

\* "if (p->buffer_alloc < p->base.buffer_len + 2 + (n_obs + 7) / 8)
\*      p->buffer_alloc <<= 1", then the two identifier bytes.
BeginSat(st, a, sv, n) ==
    [a EXCEPT !.balloc = IF a.balloc < a.blen + 2 + ((n + 7) \div 8)
                         THEN a.balloc * 2 ELSE a.balloc,
              !.out = a.out \o <<Ord(SBuf(st, sv)), SvnOf(st, sv)>>,
              !.mask = 0, !.jj = 0]

\* The satellite loop of rnx_read_v3_observations from satellite ii: after
\* the fields (c) the remaining mask bytes, buffer_len, and the newline
\* that must end the line.
RECURSIVE V3Sats(_, _, _, _)
V3LineEnd(st, e, ii, n_sats) ==
    IF SBuf(st, e.pos) # NL THEN [e EXCEPT !.err = RINEX_ERR_BAD_FORMAT]
    ELSE V3Sats(st, [e EXCEPT !.pos = e.pos + 1], ii + 1, n_sats)
V3Rest(st, d, ii, n_sats) == V3LineEnd(st, [d EXCEPT !.blen = Len(d.out)], ii, n_sats)
V3SatFields(st, c, n, ii, n_sats) ==
    IF c.err # RINEX_SUCCESS THEN c
    ELSE V3Rest(st, V3FlushRest(c, n), ii, n_sats)
V3Sat(st, a, n, ii, n_sats) ==
    V3SatFields(st, V3Fields(st, BeginSat(st, [a EXCEPT !.pos = a.pos + 3], a.pos, n), n),
                n, ii, n_sats)
V3Sats(st, a, ii, n_sats) ==
    IF ii >= n_sats THEN a
    ELSE V3Sat(st, a, NObsOf(st, a.pos), ii, n_sats)

\* The accumulator at entry: buffer_len = 0, nothing written.
ObsStart(pos) ==
    [pos |-> pos, out |-> <<>>, blen |-> 0, balloc |-> buffer_alloc,
     oalloc |-> obs_alloc, vals |-> <<>>, llis |-> <<>>, ssis |-> <<>>,
     mask |-> 0, jj |-> 0, err |-> RINEX_SUCCESS]

\* rnx_read_v3_observations(p, obs) with obs at offset pos of the window st.
rnx_read_v3_observations(st, pos, n_sats) == V3Sats(st, ObsStart(pos), 0, n_sats)

\* strchr(epoch, '\n') + 1
RECURSIVE NextLine(_, _)
NextLine(st, o) ==
    IF o >= st.size THEN o
    ELSE IF SBuf(st, o) = NL THEN o + 1
    ELSE NextLine(st, o + 1)

\* The field loop of rnx_read_v2_observations for one satellite: a newline
\* or a blank field goes to eol without storing; at eol the mask byte is
\* flushed after the last field and after every eighth, and a newline is
\* required after the last field and after every fifth.
RECURSIVE V2Fields(_, _, _)
V2Eol(st, c, n, eol) ==
    IF eol /\ SBuf(st, c.pos) # NL THEN [c EXCEPT !.err = RINEX_ERR_BAD_FORMAT]
    ELSE V2Fields(st, [c EXCEPT !.jj = c.jj + 1,
                               !.pos = IF eol THEN c.pos + 1 ELSE c.pos], n)
V2Flushed(st, c, n) == V2Eol(st, c, n, (c.jj + 1 = n) \/ (c.jj % 5 = 4))
V2Stored(st, b, n) ==
    IF b.err # RINEX_SUCCESS THEN b
    ELSE V2Flushed(st, IF (b.jj + 1 = n) \/ (b.jj % 8 = 7) THEN FlushMask(b) ELSE b, n)
V2Fields(st, a, n) ==
    IF a.jj >= n THEN a
    ELSE IF SBuf(st, a.pos) = NL THEN V2Stored(st, a, n)
    ELSE IF IsBlank16(st, a.pos) THEN V2Stored(st, [a EXCEPT !.pos = a.pos + 16], n)
    ELSE V2Stored(st, StoreObs(st, a), n)

\* The satellite loop of rnx_read_v2_observations from satellite ii; the
\* satellite names are read from the epoch line(s) at offset ep.
RECURSIVE V2Sats(_, _, _, _, _)
V2SatFields(st, c, ii, n_sats, ep) ==
    IF c.err # RINEX_SUCCESS THEN c
    ELSE V2Sats(st, [c EXCEPT !.blen = Len(c.out)], ii + 1, n_sats,
                IF ii % 12 = 11 THEN NextLine(st, ep) ELSE ep)
V2Sat(st, a, sv, n, ii, n_sats, ep) ==
    V2SatFields(st, V2Fields(st, BeginSat(st, a, sv, n), n), ii, n_sats, ep)
V2SatName(st, a, sv, ii, n_sats, ep) == V2Sat(st, a, sv, NObsOf(st, sv), ii, n_sats, ep)
V2Sats(st, a, ii, n_sats, ep) ==
    IF ii >= n_sats THEN a
    ELSE V2SatName(st, a, ep + 32 + 3 * (ii % 12), ii, n_sats, ep)

\* rnx_read_v2_observations(p, epoch, obs)
rnx_read_v2_observations(st, ep, pos, n_sats) ==
    V2Sats(st, ObsStart(pos), 0, n_sats, ep)

(***************************************************************************)
(* rinex_parse.c: rnx_read_v2 and rnx_read_v3.  The result of a read is a  *)
(* record: ret (status), outcome ("returned", "abort" for assert(0),       *)
(* "hang" when parse_fixed does not return), the stream window and         *)
(* parse_ofs left behind, the epoch, and what was written: out (bytes      *)
(* stored from buffer offset 0), blen, balloc, oalloc, vals, llis, ssis.   *)
(***************************************************************************)
\* Returning code with nothing written to the buffer or the arrays.
Returned(code, st, pofs, ep, adv) ==
    [ret |-> code, outcome |-> "returned", st |-> st, parse_ofs |-> pofs,
     epoch |-> ep, out |-> <<>>, blen |-> buffer_len, balloc |-> buffer_alloc,
     oalloc |-> obs_alloc, vals |-> <<>>, llis |-> <<>>, ssis |-> <<>>,
     advanced |-> adv]

\* Returning from rnx_read_v2_observations / rnx_read_v3_observations with
\* accumulator a.
ReturnedObs(a, st, pofs, ep, adv) ==
    [ret |-> a.err, outcome |-> "returned", st |-> st, parse_ofs |-> pofs,
     epoch |-> ep, out |-> a.out, blen |-> a.blen, balloc |-> a.balloc,
     oalloc |-> a.oalloc, vals |-> a.vals, llis |-> a.llis, ssis |-> a.ssis,
     advanced |-> adv]

\* "while (p->buffer_alloc < p->base.buffer_len) p->buffer_alloc <<= 1"
RECURSIVE GrowTo(_, _)
GrowTo(alloc, len) == IF alloc < len /\ alloc > 0 THEN GrowTo(alloc * 2, len) ELSE alloc

\* memcpy(p->base.buffer, stream->buffer + o, len) as byte values.
TextBytes(st, o, len) == [k \in 1 .. len |-> Ord(SBuf(st, o + k - 1))]

IsFlagChar(c) == c \in {"0", "1", "2", "3", "4", "5", "6"}
IsObsFlag(c) == c \in {"0", "1", "6"}
IsEventFlag(c) == c \in {"2", "3", "4", "5"}

\* A Returned result that never returns: parse_fixed loops forever.
Hung(st, pofs, ep, adv) ==
    [Returned(RINEX_ERR_BAD_FORMAT, st, pofs, ep, adv) EXCEPT !.outcome = "hang"]
\* A Returned result at assert(0).
Aborted(st, pofs, ep, adv) ==
    [Returned(RINEX_ERR_BAD_FORMAT, st, pofs, ep, adv) EXCEPT !.outcome = "abort"]

\* The six parse_uint results u of an epoch line all succeeded up to the k-th.
OkUpTo(u, k) == \A i \in 1 .. k : u[i].err = "ok"

\* rnx_read_v3 after the second rnx_get_newlines (g2): the switch on
\* epoch.flag.  The body is the n_sats lines from g2.whence.
V3GotBody(ep, adv, g2) ==
    IF g2.res <= RINEX_EOF
    THEN Returned(g2.res, g2.st, g2.whence, ep, adv \/ g2.advanced)
    ELSE IF IsObsFlag(ep.flag)
    THEN ReturnedObs(rnx_read_v3_observations(g2.st, g2.whence, ep.n_sats),
                     g2.st, g2.res, ep, adv \/ g2.advanced)
    ELSE IF IsEventFlag(ep.flag)
    THEN [Returned(RINEX_SUCCESS, g2.st, g2.res, ep, adv \/ g2.advanced)
            EXCEPT !.out = TextBytes(g2.st, g2.whence, g2.res - g2.whence),
                   !.blen = g2.res - g2.whence]
    ELSE Aborted(g2.st, g2.res, ep, adv \/ g2.advanced)

\* rnx_read_v3 at "Is there a receiver clock offset?": ep holds the fields
\* already assigned, clk is parse_fixed(line + 44, 15, 12).
V3Clocked(g1, ep, line_len, clk) ==
    IF line_len > 44 /\ line_len # 59
    THEN Returned(RINEX_ERR_BAD_FORMAT, g1.st, g1.res, ep, g1.advanced)
    ELSE IF line_len = 59 /\ clk.err = "hang"
    THEN Hung(g1.st, g1.res, ep, g1.advanced)
    ELSE IF line_len = 59 /\ clk.err # "ok"
    THEN Returned(RINEX_ERR_BAD_FORMAT, g1.st, g1.res, ep, g1.advanced)
    ELSE V3GotBody([ep EXCEPT !.clock_offset = IF line_len <= 44 THEN BigZero
                                                ELSE clk.value],
                   g1.advanced, rnx_get_newlines(g1.st, g1.res, 0, ep.n_sats))

\* rnx_read_v3 after the || chain with sec = parse_fixed(line + 18, 11, 7):
\* the epoch fields are assigned, the flag from line[28].
V3Seconds(g1, line, u, sec) ==
    IF sec.err = "hang" THEN Hung(g1.st, g1.res, epoch, g1.advanced)
    ELSE IF sec.err # "ok"
    THEN Returned(RINEX_ERR_BAD_FORMAT, g1.st, g1.res, epoch, g1.advanced)
    ELSE V3Clocked(g1,
                   [epoch EXCEPT !.yyyy_mm_dd = (u[1].value * 100 + u[2].value) * 100
                                                + u[3].value,
                                 !.hh_mm = u[4].value * 100 + u[5].value,
                                 !.sec_e7 = sec.value,
                                 !.flag = SBuf(g1.st, line + 28),
                                 !.n_sats = u[6].value],
                   g1.res - line,
                   parse_fixed(SText(g1.st, line + 44, 15), 0, 15, 12))

\* rnx_read_v3 at the || chain, u the parse_uint results of yy, mm, dd, hh,
\* min and n_sats.
V3Uints(g1, line, u) ==
    IF ~(/\ SBuf(g1.st, line) = ">" /\ IsFlagChar(SBuf(g1.st, line + 31))
         /\ OkUpTo(u, 6))
    THEN Returned(RINEX_ERR_BAD_FORMAT, g1.st, g1.res, epoch, g1.advanced)
    ELSE V3Seconds(g1, line, u, parse_fixed(SText(g1.st, line + 18, 11), 0, 11, 7))

\* rnx_read_v3 after the first rnx_get_newlines (g1); parse_ofs becomes
\* g1.res once the line is long enough.
V3Line(g1) ==
    IF g1.res <= RINEX_EOF
    THEN Returned(g1.res, g1.st, g1.whence, epoch, g1.advanced)
    ELSE IF g1.res < 35
    THEN Returned(RINEX_ERR_BAD_FORMAT, g1.st, g1.whence, epoch, g1.advanced)
    ELSE V3Uints(g1, g1.whence,
                 <<parse_uint(g1.st, g1.whence + 2, 4), parse_uint(g1.st, g1.whence + 7, 2),
                   parse_uint(g1.st, g1.whence + 10, 2), parse_uint(g1.st, g1.whence + 13, 2),
                   parse_uint(g1.st, g1.whence + 16, 2), parse_uint(g1.st, g1.whence + 32, 3)>>)

\* rnx_read_v3(p)
rnx_read_v3 == V3Line(rnx_get_newlines(stream, parse_ofs, 0, 1))

\* rnx_read_v2, case '0', '1', '6' after rnx_get_newlines (g2) for the
\* epoch line(s) and the observation lines.
V2GotObs(ep, adv, g2) ==
    IF g2.res <= RINEX_EOF
    THEN Returned(IF g2.res = RINEX_EOF THEN RINEX_ERR_BAD_FORMAT ELSE g2.res,
                  g2.st, g2.whence, ep, adv \/ g2.advanced)
    ELSE ReturnedObs(rnx_read_v2_observations(g2.st, g2.whence, g2.body_ofs, ep.n_sats),
                     g2.st, g2.res, ep, adv \/ g2.advanced)

\* rnx_read_v2, case '2' .. '5' after rnx_get_newlines (g3) for n_sats + 1
\* lines from the start of the epoch line.
V2GotEvent(ep, adv, g3) ==
    IF g3.res <= 0
    THEN Returned(IF g3.res = RINEX_EOF THEN RINEX_ERR_BAD_FORMAT ELSE g3.res,
                  g3.st, g3.whence, ep, adv \/ g3.advanced)
    ELSE [Returned(RINEX_SUCCESS, g3.st, g3.res, ep, adv \/ g3.advanced)
            EXCEPT !.out = TextBytes(g3.st, g3.whence, g3.res - g3.whence),
                   !.blen = g3.res - g3.whence,
                   !.balloc = GrowTo(buffer_alloc, g3.res - g3.whence)]

\* rnx_read_v2 at the switch on epoch.flag; parse_ofs is still the start of
\* the epoch line.
V2Switch(g1, ep) ==
    IF IsObsFlag(ep.flag)
    THEN V2GotObs(ep, g1.advanced,
                  rnx_get_newlines(g1.st, g1.whence, (ep.n_sats + 11) \div 12,
                                   ep.n_sats * ((n_obs[0] + 4) \div 5)))
    ELSE IF IsEventFlag(ep.flag)
    THEN V2GotEvent(ep, g1.advanced, rnx_get_newlines(g1.st, g1.whence, 0, ep.n_sats + 1))
    ELSE Aborted(g1.st, g1.whence, ep, g1.advanced)

\* rnx_read_v2 at "Is there a receiver clock offset?", clk being
\* parse_fixed(line + 68, 12, 9).
V2Clocked(g1, ep, line_len, clk) ==
    IF line_len > 68 /\ line_len # 80
    THEN Returned(RINEX_ERR_BAD_FORMAT, g1.st, g1.whence, ep, g1.advanced)
    ELSE IF line_len = 80 /\ clk.err = "hang"
    THEN Hung(g1.st, g1.whence, ep, g1.advanced)
    ELSE IF line_len = 80 /\ clk.err # "ok"
    THEN Returned(RINEX_ERR_BAD_FORMAT, g1.st, g1.whence, ep, g1.advanced)
    ELSE V2Switch(g1, [ep EXCEPT !.clock_offset = IF line_len <= 68 THEN BigZero
                                                   ELSE clk.value])

\* The value parse_uint left in the k-th variable of the || chain: the
\* variables start at 0 and a field is parsed only when the flag and every
\* field before it were accepted.
ChainValue(flag, u, k) == IF IsFlagChar(flag) /\ OkUpTo(u, k) THEN u[k].value ELSE 0

\* yy += (yy < 80) ? 2000 : 1900
Year(yy) == yy + (IF yy < 80 THEN 2000 ELSE 1900)

\* rnx_read_v2 after the || chain, sec being parse_fixed(line + 15, 11, 7),
\* reached only when the six fields before it were accepted.
V2Seconds(g1, line, flag, u, sec) ==
    IF IsFlagChar(flag) /\ OkUpTo(u, 6) /\ sec.err = "hang"
    THEN Hung(g1.st, g1.whence, epoch, g1.advanced)
    ELSE IF /\ ~(IsFlagChar(flag) /\ OkUpTo(u, 6) /\ sec.err = "ok")
            /\ (Ord(flag) < Ord("2") \/ flag = "6")
    THEN Returned(RINEX_ERR_BAD_FORMAT, g1.st, g1.whence, epoch, g1.advanced)
    ELSE V2Clocked(g1,
                   [epoch EXCEPT !.yyyy_mm_dd = (Year(ChainValue(flag, u, 1)) * 100
                                                 + ChainValue(flag, u, 2)) * 100
                                                + ChainValue(flag, u, 3),
                                 !.hh_mm = ChainValue(flag, u, 4) * 100
                                           + ChainValue(flag, u, 5),
                                 !.sec_e7 = IF IsFlagChar(flag) /\ OkUpTo(u, 6)
                                               /\ sec.err = "ok"
                                            THEN sec.value ELSE BigZero,
                                 !.flag = flag,
                                 !.n_sats = ChainValue(flag, u, 6)],
                   g1.res - 1 - line,
                   parse_fixed(SText(g1.st, line + 68, 12), 0, 12, 9))

\* rnx_read_v2 after the first rnx_get_newlines (g1).
V2Line(g1) ==
    IF g1.res <= RINEX_EOF
    THEN Returned(g1.res, g1.st, g1.whence, epoch, g1.advanced)
    ELSE IF g1.res < 33
    THEN Returned(RINEX_ERR_BAD_FORMAT, g1.st, g1.whence, epoch, g1.advanced)
    ELSE V2Seconds(g1, g1.whence, SBuf(g1.st, g1.whence + 28),
                   <<parse_uint(g1.st, g1.whence + 1, 2), parse_uint(g1.st, g1.whence + 4, 2),
                     parse_uint(g1.st, g1.whence + 7, 2), parse_uint(g1.st, g1.whence + 10, 2),
                     parse_uint(g1.st, g1.whence + 13, 2), parse_uint(g1.st, g1.whence + 29, 3)>>,
                   parse_fixed(SText(g1.st, g1.whence + 15, 11), 0, 11, 7))

\* rnx_read_v2(p)
rnx_read_v2 == V2Line(rnx_get_newlines(stream, parse_ofs, 0, 1))

(***************************************************************************)
(* Input files.  A file is a header of HeaderLen bytes followed by records *)
(* composed from templates; record number idx carries idx in its minute    *)
(* field.  Every observation line names satellite Gkk and its present      *)
(* fields hold distinct values.                                            *)
(***************************************************************************)
\* Number of records in a file.
MaxRecords == 2
\* Number of read() calls made on one reader.
MaxReads == 4
\* Observation counts declared by the header for system G.
NObsChoices == {2, 9}

DigitChar(d) == <<"0", "1", "2", "3", "4", "5", "6", "7", "8", "9">>[(d % 10) + 1]
Str2(n) == <<DigitChar(n \div 10), DigitChar(n)>>
\* An I3 field, right justified.
Str3(n) == <<" ", (IF n >= 10 THEN DigitChar(n \div 10) ELSE " "), DigitChar(n)>>

\* Field j of satellite k: "V" a value, "B" sixteen blanks, "X" sixteen
\* digits (no decimal point).
FieldText(k, j, c) ==
    IF c = "V" THEN MkField(FALSE, <<DigitChar(k), DigitChar(j)>>, <<"5", "0", "0">>,
                            <<" ", DigitChar(j)>>)
    ELSE IF c = "B" THEN Rep(" ", 16)
    ELSE Rep("1", 16)

\* Fields lo .. hi - 1 (0-based) of pattern pat, concatenated.
RECURSIVE FieldsText(_, _, _, _)
FieldsText(k, pat, lo, hi) ==
    IF lo >= hi THEN <<>>
    ELSE FieldText(k, lo, pat[lo + 1]) \o FieldsText(k, pat, lo + 1, hi)

SatName(k) == <<"G", "0", DigitChar(k)>>

\* RINEX 3: one line per satellite, the name then the fields.
V3SatLine(k, pat) == SatName(k) \o FieldsText(k, pat, 0, Len(pat)) \o <<NL>>

\* RINEX 2: ceil(n / 5) lines per satellite, five fields per line.
RECURSIVE V2SatLines(_, _, _, _)
V2SatLines(k, pat, n, l) ==
    IF 5 * l >= n THEN <<>>
    ELSE FieldsText(k, pat, 5 * l, Min(5 * l + 5, Len(pat))) \o <<NL>>
         \o V2SatLines(k, pat, n, l + 1)

\* A line of an event record's body.
EventLine(i) == <<" ", " ", "E", "X", " ", DigitChar(i), NL>>

\* The seconds field F11.7 with last digit d.
SecText(d) == <<" ", "3", "0", ".", "0", "0", "0", "0", "0", "0", d>>

\* "> 2020 01 01 00 MM 30.000000d  F NNN": flag at column 31.
V3Epoch(idx, t) ==
    <<">", " ", "2", "0", "2", "0", " ", "0", "1", " ", "0", "1", " ", "0", "0", " ">>
        \o Str2(idx) \o SecText(t.d28) \o <<" ", " ", t.flag>> \o Str3(t.nsats) \o <<NL>>

RECURSIVE SatNames(_, _)
SatNames(k, n) == IF k > n THEN <<>> ELSE SatName(k) \o SatNames(k + 1, n)

\* " 20 01 01 00 MM 30.000000d  F NNN" and the satellite names: flag at
\* column 28.
V2Epoch(idx, t) ==
    <<" ", "2", "0", " ", "0", "1", " ", "0", "1", " ", "0", "0", " ">>
        \o Str2(idx) \o SecText(t.d28) \o <<" ", " ", t.flag>> \o Str3(t.nsats)
        \o (IF IsObsFlag(t.flag) THEN SatNames(1, t.nsats) ELSE <<>>) \o <<NL>>

RECURSIVE BodyText(_, _, _, _)
BodyText(v, n, t, k) ==
    IF k > t.nsats THEN <<>>
    ELSE (IF ~IsObsFlag(t.flag) THEN EventLine(k)
          ELSE IF v = 3 THEN V3SatLine(k, t.pats[k])
          ELSE V2SatLines(k, t.pats[k], n, 0))
         \o BodyText(v, n, t, k + 1)

RecordText(v, n, idx, t) ==
    (IF v = 3 THEN V3Epoch(idx, t) ELSE V2Epoch(idx, t)) \o BodyText(v, n, t, 1)

\* Field patterns for a satellite with n declared observations.
PatFull(n) == [j \in 1 .. n |-> "V"]
PatBlankAt(n, b) == [j \in 1 .. n |-> IF j = b THEN "B" ELSE "V"]
PatShort(m) == [j \in 1 .. m |-> "V"]
PatBad(n) == [j \in 1 .. n |-> IF j = 1 THEN "X" ELSE "V"]

\* The record templates: flag is the epoch flag, d28 the last digit of the
\* seconds field, pats the field pattern of each satellite, ok whether the
\* record is well-formed.
Templates(n) ==
    { [flag |-> "0", d28 |-> "0", nsats |-> 1, pats |-> <<PatFull(n)>>, ok |-> TRUE],
      [flag |-> "0", d28 |-> "0", nsats |-> 1,
       pats |-> <<PatBlankAt(n, Min(n, 8))>>, ok |-> TRUE],
      [flag |-> "1", d28 |-> "0", nsats |-> 2,
       pats |-> <<PatBlankAt(n, 1), PatShort(n \div 2)>>, ok |-> TRUE],
      [flag |-> "2", d28 |-> "0", nsats |-> 0, pats |-> <<>>, ok |-> TRUE],
      [flag |-> "3", d28 |-> "0", nsats |-> 2, pats |-> <<>>, ok |-> TRUE],
      [flag |-> "4", d28 |-> "4", nsats |-> 1, pats |-> <<>>, ok |-> TRUE],
      [flag |-> "0", d28 |-> "2", nsats |-> 1, pats |-> <<PatFull(n)>>, ok |-> TRUE],
      [flag |-> "0", d28 |-> "7", nsats |-> 1, pats |-> <<PatShort(0)>>, ok |-> TRUE],
      [flag |-> "0", d28 |-> "0", nsats |-> 1, pats |-> <<PatBad(n)>>, ok |-> FALSE] }

\* The records of a file: offset, length and template of each.
RECURSIVE RecordsFrom(_, _, _, _, _)
RecordsFrom(v, n, ts, idx, ofs) ==
    IF idx > Len(ts) THEN <<>>
    ELSE LET len == Len(RecordText(v, n, idx, ts[idx]))
         IN  <<[ofs |-> ofs, len |-> len, t |-> ts[idx]]>>
             \o RecordsFrom(v, n, ts, idx + 1, ofs + len)

RECURSIVE FileText(_, _, _, _)
FileText(v, n, ts, idx) ==
    IF idx > Len(ts) THEN <<>>
    ELSE RecordText(v, n, idx, ts[idx]) \o FileText(v, n, ts, idx + 1)

HeaderText == Rep("X", HeaderLen - 1) \o <<NL>>

(***************************************************************************)
(* Specification Spec: a reader opened by rinex_open on a file, driven by  *)
(* read() calls.                                                           *)
(***************************************************************************)
\* What the caller can see of the parser.
Outputs ==
    [epoch |-> epoch, buffer |-> buffer, buffer_len |-> buffer_len,
     obs |-> obs, lli |-> lli, ssi |-> ssi]

\* The state rinex_open leaves: the first window read, the header copied to
\* the buffer, parse_ofs and buffer_alloc at the header's length, the arrays
\* allocated with nothing stored.
Init ==
    /\ TrIdle /\ FxIdle /\ SocdIdle /\ ContIdle
    /\ version \in {2, 3}
    /\ \E n \in NObsChoices :
       \E len \in 1 .. MaxRecords :
       \E ts \in [1 .. len -> Templates(n)] :
       \E cut \in BOOLEAN :
          LET text == HeaderText \o FileText(version, n, ts, 1)
              rs == RecordsFrom(version, n, ts, 1, HeaderLen)
          IN  /\ file = IF cut THEN SubSeq(text, 1, Len(text) - 4) ELSE text
              /\ recs = [i \in 1 .. len |->
                            [ofs |-> rs[i].ofs, len |-> rs[i].len, t |-> rs[i].t,
                             complete |-> ~(cut /\ i = len)]]
              /\ n_obs = [i \in 0 .. 31 |->
                            IF i = Ord("G") % 32 \/ (version = 2 /\ i = 0) THEN n ELSE 0]
    /\ stream = [start |-> 0, size |-> Min(BLOCK_SIZE, Len(file))]
    /\ parse_ofs = HeaderLen
    /\ epoch = [yyyy_mm_dd |-> 0, hh_mm |-> 0, sec_e7 |-> BigZero, flag |-> "NUL",
                n_sats |-> 0, clock_offset |-> BigZero]
    /\ buffer = [k \in 1 .. HeaderLen |-> Ord(HeaderText[k])]
    /\ buffer_len = HeaderLen
    /\ buffer_alloc = HeaderLen
    /\ obs_alloc = OBS_ALLOC_INIT
    /\ obs = <<>> /\ lli = <<>> /\ ssi = <<>>
    /\ ret = RINEX_SUCCESS
    /\ hist = [calls |-> 0, start |-> 0, nn |-> 0, advanced |-> FALSE,
               outcome |-> "returned", seen |-> <<>>, failed |-> FALSE,
               pre |-> [epoch |-> epoch, buffer |-> buffer, buffer_len |-> buffer_len,
                        obs |-> obs, lli |-> lli, ssi |-> ssi]]

\* The number of the record that starts at absolute file offset o, else 0.
RecordAt(o) ==
    IF \E i \in 1 .. Len(recs) : recs[i].ofs = o
    THEN CHOOSE i \in 1 .. Len(recs) : recs[i].ofs = o
    ELSE 0

\* vals stored over the front of array arr.
StoredOver(vals, arr) ==
    IF Len(vals) >= Len(arr) THEN vals
    ELSE vals \o SubSeq(arr, Len(vals) + 1, Len(arr))

\* The buffer after realloc to balloc bytes (new bytes indeterminate, -1)
\* and the bytes out written from offset 0.
WrittenBuffer(out, balloc) ==
    StoredOver(out, buffer \o Rep(-1, balloc - Len(buffer)))

\* p->read(p): one call of rnx_read_v2 or rnx_read_v3.  A call that reaches
\* assert(0) aborts the process, or returns BAD_FORMAT when built with
\* NDEBUG; a call that writes past the buffer's allocation has outcome
\* "overflow".
ReadResult(r) ==
    /\ ret' = r.ret
    /\ stream' = r.st
    /\ parse_ofs' = r.parse_ofs
    /\ epoch' = r.epoch
    /\ buffer' = WrittenBuffer(r.out, r.balloc)
    /\ buffer_len' = r.blen
    /\ buffer_alloc' = r.balloc
    /\ obs_alloc' = r.oalloc
    /\ obs' = StoredOver(r.vals, obs)
    /\ lli' = StoredOver(r.llis, lli)
    /\ ssi' = StoredOver(r.ssis, ssi)
    /\ \E oc \in (IF r.outcome = "abort" THEN {"abort", "returned"}
                  ELSE IF Len(r.out) > r.balloc THEN {"overflow"}
                  ELSE {r.outcome}) :
         hist' = [calls |-> hist.calls + 1,
                  start |-> stream.start + parse_ofs,
                  nn |-> Len(r.vals),
                  advanced |-> r.advanced,
                  outcome |-> oc,
                  seen |-> IF r.ret = RINEX_SUCCESS
                           THEN Append(hist.seen, RecordAt(stream.start + parse_ofs))
                           ELSE hist.seen,
                  failed |-> hist.failed \/ ret < RINEX_EOF,
                  pre |-> Outputs]
Read ==
    /\ version \in {2, 3}
    /\ hist.calls < MaxReads
    /\ hist.outcome = "returned"
    /\ ReadResult(IF version = 2 THEN rnx_read_v2 ELSE rnx_read_v3)
    /\ UNCHANGED <<file, version, n_obs, recs, trVars, fxVars, socdVars, contVars>>

Next == Read
Spec == Init /\ [][Next]_vars

(***************************************************************************)
(* Properties of read().                                                   *)
(***************************************************************************)
\* The last read() returned Success.
ReadSucceeded == hist.calls > 0 /\ hist.outcome = "returned" /\ ret = RINEX_SUCCESS
\* The number of the record at whose first byte the last read() started.
ReadRec == RecordAt(hist.start)
\* The last read() returned Success for a record of the file whose epoch
\* line carries an observation flag, and reported it as one.
ReadObsRecord ==
    /\ ReadSucceeded /\ ReadRec > 0
    /\ IsObsFlag(recs[ReadRec].t.flag) /\ IsObsFlag(epoch.flag)

\* Byte i (from 0) of the record buffer; nothing past buffer_len.
BufAt(i) == IF i < buffer_len THEN buffer[i + 1] ELSE 0
PopCount(m) == Cardinality({b \in 0 .. 7 : BitOf(m, b) = 1})
\* Observations declared for the satellites of the file, and the bytes one
\* satellite takes in the presence buffer.
NDeclared == n_obs[Ord("G") % 32]
BitmapBytes == (NDeclared + 7) \div 8
SatBytes == 2 + BitmapBytes
\* The 1 bits of bitmap bytes q.. of satellite k and of all bitmaps after.
RECURSIVE PresenceBits(_, _)
PresenceBits(k, q) ==
    IF k >= epoch.n_sats THEN 0
    ELSE IF q >= BitmapBytes THEN PresenceBits(k + 1, 0)
    ELSE PopCount(BufAt(k * SatBytes + 2 + q)) + PresenceBits(k, q + 1)

\* C1: after a read() that returns Success for an observation record, the
\* number of 1 bits over all per-satellite presence bitmaps in the record
\* buffer equals the number of values (and of LLI and SSI bytes) produced
\* for the record.
C1_PresenceCount ==
    ReadObsRecord =>
        /\ PresenceBits(0, 0) = hist.nn
        /\ Len(obs) >= hist.nn /\ Len(lli) >= hist.nn /\ Len(ssi) >= hist.nn

\* Field j (from 0) of a satellite line with pattern pat is non-blank.
FieldPresent(pat, j) == j + 1 <= Len(pat) /\ pat[j + 1] = "V"

\* C5: in the presence buffer of an observation record every satellite
\* occupies 2 + ceil(n_obs / 8) bytes (system letter, satellite number,
\* bitmap), and bit j mod 8 of bitmap byte j div 8 is 1 exactly when the
\* satellite's j-th declared field is non-blank, for blank fields and short
\* lines as well.
C5_PresenceLayout ==
    ReadObsRecord =>
        /\ epoch.n_sats = recs[ReadRec].t.nsats
        /\ buffer_len = epoch.n_sats * SatBytes
        /\ \A k \in 0 .. epoch.n_sats - 1 :
              /\ BufAt(k * SatBytes) = Ord("G")
              /\ BufAt(k * SatBytes + 1) = k + 1
              /\ \A j \in 0 .. NDeclared - 1 :
                    BitOf(BufAt(k * SatBytes + 2 + (j \div 8)), j % 8) = 1
                        <=> FieldPresent(recs[ReadRec].t.pats[k + 1], j)

\* The text of record i after its epoch line.
FirstNewline(o) == CHOOSE q \in o + 1 .. Len(file) :
                      file[q] = NL /\ \A z \in o + 1 .. q - 1 : file[z] # NL
RecordBody(i) == SubSeq(file, FirstNewline(recs[i].ofs) + 1, recs[i].ofs + recs[i].len)
BytesOf(text) == [k \in 1 .. Len(text) |-> Ord(text[k])]

\* C6: when read() returns Success for an event record (flag '2'..'5') with
\* count n_sats, the record buffer holds exactly the n_sats lines after the
\* epoch line, byte for byte, and no values, LLI or SSI entries are produced.
C6_EventBody ==
    (ReadSucceeded /\ ReadRec > 0 /\ IsEventFlag(recs[ReadRec].t.flag)) =>
        /\ SubSeq(buffer, 1, buffer_len) = BytesOf(RecordBody(ReadRec))
        /\ hist.nn = 0

\* C7: for a RINEX 3 epoch line, epoch.flag and the choice between
\* observation and event handling follow the character at column 31.
C7_FlagColumn ==
    (version = 3 /\ ReadSucceeded /\ ReadRec > 0) =>
        /\ epoch.flag = recs[ReadRec].t.flag
        /\ IsEventFlag(recs[ReadRec].t.flag) => hist.nn = 0

\* Every record of the file is well-formed and complete.
WellFormed == \A i \in 1 .. Len(recs) : recs[i].t.ok /\ recs[i].complete

\* C4: successive successful read() calls return the records of the input
\* in file order, each exactly once, also across stream.advance, and the
\* call after the last record returns EOF.
C4_FileOrder ==
    (WellFormed /\ hist.outcome = "returned") =>
        /\ \A i \in 1 .. Len(hist.seen) : hist.seen[i] = i
        /\ ret \in {RINEX_SUCCESS, RINEX_EOF}
        /\ ret = RINEX_EOF => Len(hist.seen) = Len(recs)

\* C3: a read() either returns Success with the outputs describing the one
\* record just read, or it fails without leaving the epoch of the failed
\* record beside the values of the previous one.
C3_NoPartialRecords ==
    (hist.calls > 0 /\ hist.outcome = "returned") =>
        IF ret = RINEX_SUCCESS
        THEN /\ ReadRec > 0
             /\ epoch.hh_mm = ReadRec
             /\ epoch.n_sats = recs[ReadRec].t.nsats
        ELSE ~(/\ epoch # hist.pre.epoch
               /\ hist.pre.obs # <<>>
               /\ obs = hist.pre.obs)

(***************************************************************************)
(* srnx.c: the observation reader of one SOCD chunk.  socd.data is         *)
(* srnx->data from the chunk's tag (the offset srnx_find_socd returns is   *)
(* 0) to the end of the file; socd.values are the values the chunk stores, *)
(* socd.coding the delta order, scale times 1000, initial state and        *)
(* residuals it stores them as.                                            *)
(* rdr is struct srnx_obs_reader, rv the results of the read calls made.   *)
(***************************************************************************)
SRNX_NOT_SRNX == -1
SRNX_CORRUPT == -2
SRNX_BAD_MAJOR == -3
SRNX_BAD_STATE == -4
SRNX_UNKNOWN_SYSTEM == -6
SRNX_UNKNOWN_CODE == -7
SRNX_UNKNOWN_SATELLITE == -8
SRNX_END_OF_DATA == -9
SRNX_IMPLEMENTATION_ERROR == -10
ENOMEM == 12
BLOCK_EMPTY == 254
BLOCK_SLEB128 == 255
\* No block header read yet.
NoHeader == -1
\* sizeof(p_socd->obs) / sizeof(p_socd->obs[0])
OBS_LEN == 256
\* The width of unsigned short obs_valid and of unsigned char obs_idx.
USHORT_MOD == 65536
UCHAR_MOD == 256

\* Words as numbers, for the words that fit an int.
IsSmall(w) == \A i \in w : i <= 30
RECURSIVE WordNatFrom(_, _)
WordNatFrom(w, i) ==
    IF i > 30 THEN 0 ELSE (IF i \in w THEN Pow2(i) ELSE 0) + WordNatFrom(w, i + 1)
WordNat(w) == WordNatFrom(w, 0)
U64OfNat(n) == {i \in 0 .. 30 : (n \div Pow2(i)) % 2 = 1}
\* w > n for a uint64_t w and 0 <= n.
GtNat(w, n) == ~IsSmall(w) \/ WordNat(w) > n
\* -w and w + 1 in 64 bits.
Neg64(w) ==
    IF w = {} THEN {}
    ELSE {i \in BitPos : \/ i \in w /\ \A k \in w : k >= i
                         \/ i \notin w /\ \E k \in w : k < i}
Inc64(w) == {i \in BitPos : IF \A k \in 0 .. i - 1 : k \in w THEN i \notin w ELSE i \in w}

\* srnx->data[p]; a read outside the file is undefined.
InData(p) == p >= 0 /\ p < Len(socd.data)
DByte(p) == IF InData(p) THEN socd.data[p + 1] ELSE 0

\* uleb128(&d) with *d at offset p: [val, d, ub].  Each continuation byte
\* replaces accum by the next group shifted, and d is left on the last
\* byte read.
RECURSIVE UlebMore(_, _, _)
UlebMore(p, shift, accum) ==
    IF ~InData(p) THEN [val |-> accum, d |-> p, ub |-> TRUE]
    ELSE IF DByte(p) < 128 THEN [val |-> accum, d |-> p, ub |-> FALSE]
    ELSE IF shift + 7 > 63 \/ ~InData(p + 1) THEN [val |-> accum, d |-> p + 1, ub |-> TRUE]
    ELSE UlebMore(p + 1, shift + 7, Shl64(U64OfByte(DByte(p + 1) % 128), shift + 7))
uleb128(p) == UlebMore(p, 0, U64OfByte(DByte(p) % 128))

\* sleb128(&d): mag = ul >> 1, negated when ul is odd.
SlebOf(u) ==
    [val |-> IF 0 \in u.val THEN Neg64(Shr64(u.val, 1)) ELSE Shr64(u.val, 1),
     d |-> u.d, ub |-> u.ub]
sleb128(p) == SlebOf(uleb128(p))

\* The reader struct after memset(*p_rdr, 0, sizeof **p_rdr).
ZeroReader ==
    [state |-> "open", err |-> 0, obs_valid |-> 0, obs_idx |-> 0, block_code |-> 0,
     block_left |-> 0, n_values |-> {}, lli_offset |-> 0, data_offset |-> 0,
     data_end |-> 0, obs |-> [k \in 1 .. OBS_LEN |-> U64Zero]]
OpenFailed(code) == [rdr EXCEPT !.state = "failed", !.err = code]
OpenUndefined == [rdr EXCEPT !.state = "undefined"]

\* srnx_digest_length(digest_id)
srnx_digest_length(digest_id) == IF digest_id = 0 THEN 0 ELSE Pow2(digest_id % 8)
\* The reader fields the lookups use.
data_size == IF srnx.state = "none" THEN Len(socd.data) ELSE srnx.data_size
chunk_digest_length ==
    IF srnx.state = "none" THEN 0 ELSE srnx_digest_length(srnx.chunk_digest)
next_offset == IF srnx.state = "none" THEN 0 ELSE srnx.next_offset
epoc_offset == IF srnx.state = "none" THEN -1 ELSE srnx.epoc_offset

\* "u64 > (uint64_t)(srnx->data + srnx->data_size - rptr)"
TooLong(u) == GtNat(u.val, data_size - u.d)

\* srnx_open_obs_by_index from "How big is the SOCD payload?", one stage
\* per uleb128 call: the payload length (u0), n_values - 1 (u1), the LLI
\* length (u2), the SSI length (u3) and the data length (u4).
OpenData(n_values, lli_offset, u4) ==
    IF u4.ub THEN OpenUndefined
    ELSE IF TooLong(u4) THEN OpenFailed(SRNX_CORRUPT)
    ELSE [ZeroReader EXCEPT !.n_values = n_values, !.lli_offset = lli_offset,
                            !.data_offset = u4.d, !.data_end = u4.d + WordNat(u4.val)]
OpenSsi(n_values, lli_offset, u3) ==
    IF u3.ub THEN OpenUndefined
    ELSE IF TooLong(u3) THEN OpenFailed(SRNX_CORRUPT)
    ELSE OpenData(n_values, lli_offset, uleb128(u3.d + WordNat(u3.val)))
OpenLli(n_values, lli_offset, u2) ==
    IF u2.ub THEN OpenUndefined
    ELSE IF TooLong(u2) THEN OpenFailed(SRNX_CORRUPT)
    ELSE OpenSsi(n_values, lli_offset, uleb128(u2.d + WordNat(u2.val)))
OpenCount(u1) ==
    IF u1.ub THEN OpenUndefined
    ELSE OpenLli(Inc64(u1.val), u1.d, uleb128(u1.d))
OpenPayload(u0) ==
    IF u0.ub THEN OpenUndefined
    ELSE IF TooLong(u0) THEN OpenFailed(SRNX_CORRUPT)
    ELSE OpenCount(uleb128(u0.d + 8))
srnx_open_obs_by_index == OpenPayload(uleb128(4))

\* The decoding state s of decode_observations: data (offset of the read
\* pointer), idx, avail, the reader r being updated, res (the value to
\* return) and ub (the call did something undefined).
DecOut(s, res) == [s EXCEPT !.res = res]
DecUndefined(s) == [s EXCEPT !.ub = TRUE]

\* obs[idx .. idx + n - 1] = vals[1 .. n]
PutObs(arr, idx, vals) ==
    [k \in 1 .. OBS_LEN |->
        IF k > idx /\ k <= idx + Len(vals) THEN vals[k - idx] ELSE arr[k]]

\* The rows handed to transpose(): (count >> 3) * bits bytes from offset p.
MatrixBytes(p, bits, count) == [k \in 1 .. (count \div 8) * bits |-> DByte(p + k - 1)]

RECURSIVE DecLoop(_, _)
RECURSIVE TryBlock(_, _)
RECURSIVE SlebRun(_, _, _)
RECURSIVE DecNext(_, _)

\* A transposed matrix of count values of bits bits at s.data.
DecMatrix(s, end, count, bits) ==
    IF count > 32 \/ s.data + (count \div 8) * bits > end THEN DecOut(s, SRNX_CORRUPT)
    ELSE IF s.avail < count THEN DecOut(s, 0)
    ELSE IF s.idx + count > OBS_LEN THEN DecUndefined(s)
    ELSE DecLoop([s EXCEPT !.r.obs = PutObs(s.r.obs, s.idx,
                                           transpose_generic([k \in 1 .. count |-> U64Zero],
                                                             MatrixBytes(s.data, bits, count),
                                                             bits, count)),
                           !.data = s.data + bits,
                           !.idx = s.idx + count], end)

\* After "u64 = uleb128(&data)" (u) for a block header ch.
DecCount(s, end, ch, u) ==
    IF u.ub THEN DecUndefined(s)
    ELSE IF GtNat(u.val, 2147483647) \/ u.d > end
    THEN DecOut([s EXCEPT !.data = u.d], SRNX_CORRUPT)
    ELSE TryBlock([s EXCEPT !.data = u.d, !.r.block_left = WordNat(u.val),
                            !.r.block_code = ch], end)

\* "ch = *data++" and what follows.  A header byte above 127 other than the
\* two block codes is a negative char, whose shift is undefined.
DecHeader(s, end, ch) ==
    IF ch = BLOCK_EMPTY \/ ch = BLOCK_SLEB128
    THEN DecCount([s EXCEPT !.data = s.data + 1], end, ch, uleb128(s.data + 1))
    ELSE IF ch >= 128 THEN DecUndefined(s)
    ELSE DecMatrix([s EXCEPT !.data = s.data + 1], end, 8 * Pow2(ch \div 32), (ch % 32) + 1)
DecNext(s, end) ==
    IF ~InData(s.data) THEN DecUndefined(s)
    ELSE DecHeader([s EXCEPT !.ch = DByte(s.data)], end, DByte(s.data))

\* The BLOCK_SLEB128 loop over count values.  sleb128 leaves data on the
\* last byte it read, so the first iteration decodes at s.data (v0) and
\* every later one decodes that last byte again (v1); "data > end" can
\* therefore only strike in the first iteration.
SlebValues(count, v0, v1) == [k \in 1 .. count |-> IF k = 1 THEN v0.val ELSE v1.val]
SlebStored(s, end, count, v0, v1) ==
    IF v0.ub \/ s.idx >= OBS_LEN THEN DecUndefined(s)
    ELSE IF v0.d > end
    THEN DecOut([s EXCEPT !.r.obs = PutObs(s.r.obs, s.idx, <<v0.val>>),
                          !.idx = s.idx + 1, !.data = v0.d], SRNX_CORRUPT)
    ELSE IF s.idx + count > OBS_LEN THEN DecUndefined(s)
    ELSE DecNext([s EXCEPT !.r.obs = PutObs(s.r.obs, s.idx, SlebValues(count, v0, v1)),
                           !.idx = s.idx + count, !.data = v0.d,
                           !.r.block_left = s.r.block_left - count,
                           !.avail = s.avail - count], end)
SlebFirst(s, end, count, v0) == SlebStored(s, end, count, v0, sleb128(v0.d))
SlebRun(s, end, count) ==
    IF count <= 0 THEN DecNext(s, end)
    ELSE SlebFirst(s, end, count, sleb128(s.data))

\* The BLOCK_EMPTY case: memset of count values at obs + idx; idx stays.
DecEmpty(s, end, count) ==
    IF s.idx + count > OBS_LEN THEN DecUndefined(s)
    ELSE DecNext([s EXCEPT !.r.obs = PutObs(s.r.obs, s.idx, [k \in 1 .. count |-> U64Zero]),
                           !.r.block_left = s.r.block_left - count,
                           !.avail = s.avail - count], end)

\* try_block:
TryBlock(s, end) ==
    IF s.r.block_left > 0
    THEN IF s.r.block_code = BLOCK_SLEB128
         THEN SlebRun(s, end, Min(s.r.block_left, s.avail))
         ELSE IF s.r.block_code = BLOCK_EMPTY
         THEN DecEmpty(s, end, Min(s.r.block_left, s.avail))
         ELSE DecOut(s, SRNX_IMPLEMENTATION_ERROR)
    ELSE DecNext(s, end)

\* "while (data < end)": avail is recomputed from obs_valid on each pass.
DecLoop(s, end) ==
    IF s.data >= end THEN DecOut(s, 0)
    ELSE TryBlock([s EXCEPT !.avail = OBS_LEN - s.r.obs_valid], end)

\* "Pack down valid observations to the start": obs_valid -= obs_idx in an
\* unsigned short, then memmove of obs_valid values, which is undefined
\* when it leaves the array.
Packed(r) ==
    IF r.obs_idx = 0 THEN [r |-> r, ub |-> FALSE]
    ELSE IF (r.obs_valid - r.obs_idx) % USHORT_MOD = 0
    THEN [r |-> [r EXCEPT !.obs_valid = 0], ub |-> FALSE]
    ELSE IF r.obs_idx + ((r.obs_valid - r.obs_idx) % USHORT_MOD) > OBS_LEN
    THEN [r |-> r, ub |-> TRUE]
    ELSE [r |-> [r EXCEPT !.obs_valid = (r.obs_valid - r.obs_idx) % USHORT_MOD,
                          !.obs = [k \in 1 .. OBS_LEN |->
                                     IF k <= (r.obs_valid - r.obs_idx) % USHORT_MOD
                                     THEN r.obs[k + r.obs_idx] ELSE r.obs[k]]],
          ub |-> FALSE]

\* "out:" data_offset and obs_idx (an unsigned char) are stored back.
DecDone(s) ==
    [r |-> [s.r EXCEPT !.data_offset = s.data, !.obs_idx = s.idx % UCHAR_MOD],
     res |-> s.res, ub |-> s.ub, ch |-> s.ch, n |-> s.idx]
DecPacked(pk) ==
    IF pk.ub THEN [r |-> pk.r, res |-> 0, ub |-> TRUE, ch |-> NoHeader, n |-> 0]
    ELSE DecDone(DecLoop([data |-> pk.r.data_offset, idx |-> 0, avail |-> 0, r |-> pk.r,
                          res |-> 0, ub |-> FALSE, ch |-> NoHeader], pk.r.data_end))

\* decode_observations(p_socd): [r, res, ub, ch, n], ch the last block
\* header it read and n the final idx.
decode_observations(r) == DecPacked(Packed(r))

\* srnx_read_obs_value(p_socd, &value): [r, ret, value, ub, ch, idx], with
\* ch and idx the last block header read and the number of values stored
\* by the call's decode_observations.
ReadStored(r) ==
    [r |-> [r EXCEPT !.obs_idx = (r.obs_idx + 1) % UCHAR_MOD], ret |-> 0,
     value |-> r.obs[r.obs_idx + 1], ub |-> FALSE, ch |-> NoHeader, idx |-> 0]
ReadDecoded(d) ==
    IF d.ub
    THEN [r |-> d.r, ret |-> 0, value |-> U64Zero, ub |-> TRUE, ch |-> d.ch,
          idx |-> d.n]
    ELSE IF d.res # 0
    THEN [r |-> d.r, ret |-> d.res, value |-> U64Zero, ub |-> FALSE, ch |-> d.ch,
          idx |-> d.n]
    ELSE IF d.r.obs_valid = 0
    THEN [r |-> d.r, ret |-> SRNX_END_OF_DATA, value |-> U64Zero, ub |-> FALSE,
          ch |-> d.ch, idx |-> d.n]
    ELSE [ReadStored(d.r) EXCEPT !.ch = d.ch, !.idx = d.n]
ReadRefill(r) ==
    IF r.data_offset < r.data_end THEN ReadDecoded(decode_observations(r))
    ELSE ReadDecoded([r |-> r, res |-> 0, ub |-> FALSE, ch |-> NoHeader, n |-> 0])
srnx_read_obs_value(r) ==
    IF r.obs_idx >= r.obs_valid THEN ReadRefill([r EXCEPT !.obs_valid = 0])
    ELSE ReadStored(r)

(***************************************************************************)
(* Succinct_RINEX.md: well-formed SOCD chunks.                             *)
(***************************************************************************)
\* ULEB128 and SLEB128 (ZigZag) as the format defines them.
RECURSIVE EncUleb(_)
EncUleb(n) == IF n < 128 THEN <<n>> ELSE <<128 + (n % 128)>> \o EncUleb(n \div 128)
EncSleb(v) == EncUleb(IF v < 0 THEN 2 * (-v) - 1 ELSE 2 * v)

\* The values of a SLEB128 block; those used here take one byte each.
EncSlebs(vs) == [k \in 1 .. Len(vs) |-> EncSleb(vs[k])[1]]

\* Row r (0 the most significant) of the 8 x bits matrix of vs, each value
\* in bits-bit two's complement, the first value in the byte's MSB.
RECURSIVE RowByte(_, _, _, _)
RowByte(vs, bits, r, j) ==
    IF j > 8 THEN 0
    ELSE (((vs[j] + Pow2(bits)) \div Pow2(bits - 1 - r)) % 2) * Pow2(8 - j)
         + RowByte(vs, bits, r, j + 1)

\* One block: [kind, vals, bits].
EncBlock(b) ==
    IF b.kind = "zero" THEN <<BLOCK_EMPTY>> \o EncUleb(Len(b.vals) - 1)
    ELSE IF b.kind = "sleb"
    THEN <<BLOCK_SLEB128>> \o EncUleb(Len(b.vals) - 1) \o EncSlebs(b.vals)
    ELSE <<b.bits - 1>> \o [r \in 1 .. b.bits |-> RowByte(b.vals, b.bits, r - 1, 1)]

RECURSIVE EncBlocks(_)
EncBlocks(bs) == IF bs = <<>> THEN <<>> ELSE EncBlock(Head(bs)) \o EncBlocks(Tail(bs))
RECURSIVE BlockValues(_)
BlockValues(bs) == IF bs = <<>> THEN <<>> ELSE Head(bs).vals \o BlockValues(Tail(bs))

\* A block of bytes behind its ULEB128 length.
Sized(bytes) == EncUleb(Len(bytes)) \o bytes

\* The chunk: tag, payload length, name, n_values - 1, LLI block, SSI
\* block, and the packed data (length, schema 0, blocks).
SocdChunk(name, rle, bs) ==
    <<83, 79, 67, 68>>
        \o Sized(name \o EncUleb(Len(BlockValues(bs)) - 1) \o Sized(rle) \o Sized(rle)
                 \o Sized(<<0>> \o EncBlocks(bs)))

\* "G01", pad, a two- or three-character signal name, padding.
SocdNames == { <<71, 48, 49, 0, 76, 49, 0, 0>>, <<71, 48, 49, 0, 76, 49, 67, 0>> }
\* Run-length encoded indicators: none, one run of '1', or "22 999".
SocdIndicators == { <<>>, <<49, 0>>, <<50, 1, 32, 0, 57, 2>> }
\* The number of indicators the pairs of a block stand for.
RECURSIVE RleTotal(_)
RleTotal(rle) == IF Len(rle) < 2 THEN 0 ELSE rle[2] + 1 + RleTotal(SubSeq(rle, 3, Len(rle)))
\* The pairs a chunk stores for n values, before srnx_read_obs_ssi_lli.
IndicatorsOf(rle, n, wf) ==
    [rle |-> rle, n |-> n, wf |-> wf, state |-> "none", ret |-> 0, n_values |-> 0,
     lli |-> <<>>, ssi |-> <<>>]
\* Values 1 .. n of a long SLEB128 block.
LongRun == 130
Zeros(n) == [k \in 1 .. n |-> 0]
SocdBlocks ==
    { <<[kind |-> "sleb", vals |-> <<5>>, bits |-> 0]>>,
      <<[kind |-> "sleb", vals |-> <<5, -3, 7>>, bits |-> 0]>>,
      <<[kind |-> "zero", vals |-> Zeros(4), bits |-> 0]>>,
      <<[kind |-> "matrix", vals |-> <<1, 0, -1, -2, 1, 1, 0, 0>>, bits |-> 2]>>,
      <<[kind |-> "sleb", vals |-> <<1, 2>>, bits |-> 0],
        [kind |-> "zero", vals |-> Zeros(2), bits |-> 0]>>,
      <<[kind |-> "matrix", vals |-> <<3, -4, 0, 1, 2, -1, -2, -3>>, bits |-> 3],
        [kind |-> "sleb", vals |-> <<9>>, bits |-> 0]>>,
      <<[kind |-> "sleb", vals |-> [k \in 1 .. LongRun |-> k % 7], bits |-> 0]>> }

\* Files that are not chunks as the format defines them: after the tag and
\* a length byte, the bytes at offsets 12, 13 and 14 are read by the open as
\* a count, two lengths and the data length, which puts data_offset at 14
\* and data_end at 46, so that the reads decode body as blocks.
CraftedChunk(body) ==
    <<83, 79, 67, 68, 40, 71, 48, 49, 0, 76, 49, 0, 1, 1, 32>>
        \o body \o Zeros(31 - Len(body))
\* A chunk whose data is one matrix block of 16 values of 30 bits: the
\* header 61 = 001 11101 and 30 rows of two bytes; mid is the first byte of
\* row 15.
MatrixRows(mid) == [k \in 1 .. 60 |-> IF k = 31 THEN mid ELSE (k * 37) % 256]
MatrixChunk(mid) ==
    <<83, 79, 67, 68, 70, 71, 48, 49, 0, 76, 49, 0, 1, 1, 61>> \o MatrixRows(mid)
\* A file the reader takes for three values with the loss-of-lock
\* indicators 2 0 0 and the signal strengths 1 (dlen + 1 times, then
\* spaces): offset 12 is read as the count less one and as the LLI length,
\* offset 14 as the SSI length and offset 15 as the data length dlen.
IndicatorChunk(dlen) ==
    <<83, 79, 67, 68, 40, 71, 48, 49, 0, 76, 49, 0, 2, 0, 1, dlen>> \o Zeros(30)
SocdCrafted ==
    { CraftedChunk(<<128, 28, 5>>),
      CraftedChunk(<<128, 96>>),
      CraftedChunk(<<0, BLOCK_SLEB128, 3, 1, 2, 3, 4, 22>>),
      CraftedChunk(<<0, BLOCK_EMPTY, 2, 7, 7, 7, 23>>),
      CraftedChunk(<<0, 200>>), CraftedChunk(<<0, 130>>), CraftedChunk(<<0, 100>>),
      MatrixChunk(96), MatrixChunk(28), MatrixChunk(0),
      IndicatorChunk(0), IndicatorChunk(2) }

\* Packed observation data with a schema: the delta order plus 8 when a
\* scale follows, the scale times 1000, the initial state of the delta
\* coder, and the blocks of last-level deltas.
RECURSIVE EncInit(_)
EncInit(init) == IF init = <<>> THEN <<>> ELSE EncSleb(Head(init)) \o EncInit(Tail(init))
PackedData(c, bs) ==
    EncUleb(c.order + (IF c.scale = 1000 THEN 0 ELSE 8))
        \o (IF c.scale = 1000 THEN <<>> ELSE EncUleb(c.scale))
        \o EncInit(c.init) \o EncBlocks(bs)
DeltaChunk(name, c, bs) ==
    <<83, 79, 67, 68>>
        \o Sized(name \o EncUleb(Len(BlockValues(bs)) - 1) \o Sized(<<>>) \o Sized(<<>>)
                 \o Sized(PackedData(c, bs)))

\* The inverse integrator: the running sums of the residuals, one level per
\* delta order, each level started from its stored initial state.
RECURSIVE RunningSums(_, _)
RunningSums(start, rs) ==
    IF rs = <<>> THEN <<>>
    ELSE <<start + Head(rs)>> \o RunningSums(start + Head(rs), Tail(rs))
RECURSIVE Integrated(_, _, _)
Integrated(order, init, rs) ==
    IF order = 0 THEN rs
    ELSE RunningSums(init[1], Integrated(order - 1, Tail(init), rs))
\* The values a chunk stores: the integrated residuals times scale / 1000.
Reconstructed(c) ==
    [k \in 1 .. Len(c.resid) |-> (Integrated(c.order, c.init, c.resid)[k] * c.scale) \div 1000]

\* Delta codings: order 1 from [1000] with five zero residuals; order 1 with
\* SLEB128 residuals; orders 0 and 1 with an explicit scale.
SocdCodings ==
    { [order |-> 1, scale |-> 1000, init |-> <<1000>>, resid |-> Zeros(5)],
      [order |-> 1, scale |-> 1000, init |-> <<7>>, resid |-> <<1, -2, 3>>],
      [order |-> 0, scale |-> 2000, init |-> <<>>, resid |-> <<3, -1>>],
      [order |-> 1, scale |-> 500, init |-> <<0>>, resid |-> <<2, 2, 4>>] }
\* The blocks of a residual sequence: one zero block or one SLEB128 block.
ResidBlocks(rs) ==
    <<[kind |-> IF rs = Zeros(Len(rs)) THEN "zero" ELSE "sleb", vals |-> rs, bits |-> 0]>>

(***************************************************************************)
(* Specification SpecSocd: a reader opened on one chunk, then read.        *)
(***************************************************************************)
\* Number of srnx_read_obs_value calls made on one reader.
MaxValueReads == 5

InitSocd ==
    /\ TrIdle /\ FxIdle /\ RnxIdle /\ ContIdle
    /\ \/ \E name \in SocdNames : \E rle \in SocdIndicators : \E bs \in SocdBlocks :
             /\ socd = [data |-> SocdChunk(name, rle, bs), values |-> BlockValues(bs),
                        wf |-> RleTotal(rle) <= Len(BlockValues(bs)),
                        coding |-> [order |-> 0, scale |-> 1000, init |-> <<>>,
                                    resid |-> BlockValues(bs)]]
             /\ ind = IndicatorsOf(rle, Len(BlockValues(bs)), TRUE)
       \/ \E name \in SocdNames : \E c \in SocdCodings :
             /\ socd = [data |-> DeltaChunk(name, c, ResidBlocks(c.resid)),
                        values |-> Reconstructed(c), wf |-> TRUE, coding |-> c]
             /\ ind = IndicatorsOf(<<>>, Len(c.resid), TRUE)
       \/ \E data \in SocdCrafted :
             /\ socd = [data |-> data, values |-> <<>>, wf |-> FALSE,
                        coding |-> [order |-> 0, scale |-> 1000, init |-> <<>>, resid |-> <<>>]]
             /\ ind = IndicatorsOf(<<>>, 0, FALSE)
    /\ rdr = [ZeroReader EXCEPT !.state = "closed"]
    /\ rv = <<>>
    /\ epoc = [spans |-> <<>>, wf |-> FALSE, state |-> "none", ret |-> 0, list |-> <<>>]
    /\ leb = [v |-> {}, u |-> {}, enc |-> <<>>, state |-> "idle", val |-> {}, d |-> 0]

\* srnx_open_obs_by_index(srnx, name, obs_idx, &rdr) for the chunk.
OpenObs ==
    /\ rdr.state = "closed"
    /\ rdr' = srnx_open_obs_by_index
    /\ UNCHANGED <<socd, rv, epoc, ind, leb, trVars, fxVars, rnxVars, contVars>>

\* The words a call with undefined behaviour may hand back.
UndefinedValues == {U64Zero, U64OfNat(1)}

\* srnx_read_obs_value(rdr, &value).  rv records what the call returned,
\* the last block header its decode_observations read (ch), the number of
\* values that stored (idx) and data_offset before and after the call.
ReadValueResult(c) ==
    IF c.ub
    THEN /\ rdr' = [c.r EXCEPT !.state = "undefined"]
         /\ \E code \in {0, SRNX_END_OF_DATA, SRNX_CORRUPT} : \E v \in UndefinedValues :
               rv' = Append(rv, [ret |-> code, value |-> v, ch |-> c.ch, idx |-> c.idx,
                                 start |-> rdr.data_offset, stop |-> c.r.data_offset])
    ELSE /\ rdr' = c.r
         /\ rv' = Append(rv, [ret |-> c.ret, value |-> c.value, ch |-> c.ch, idx |-> c.idx,
                              start |-> rdr.data_offset, stop |-> c.r.data_offset])
ReadValue ==
    /\ rdr.state = "open"
    /\ Len(rv) < MaxValueReads
    /\ ReadValueResult(srnx_read_obs_value(rdr))
    /\ UNCHANGED <<socd, epoc, ind, leb, trVars, fxVars, rnxVars, contVars>>

(***************************************************************************)
(* Indicators: decompress_indicators and srnx_read_obs_ssi_lli.             *)
(***************************************************************************)
\* A byte of a buffer that realloc returned and nothing has written.
Unwritten == -1
Raw(n) == [k \in 1 .. n |-> Unwritten]
\* memset(out + ii, c, count)
Memset(out, ii, c, count) ==
    [k \in 1 .. Len(out) |-> IF k > ii /\ k <= ii + count THEN c ELSE out[k]]
IndResult(code, out) == [ret |-> code, out |-> out, ub |-> FALSE]
IndUndefined(out) == [ret |-> 0, out |-> out, ub |-> TRUE]

\* decompress_indicators(out, n_values, in, end) from the state (in, ii) of
\* its loop: [ret, out, ub].  IndRun is one pass of the loop body after
\* "ind = *in++" (c) and "uleb128(&in)" (u); a count that carries
\* "ii + count" past 2^64 passes the check and memset leaves the buffer.
RECURSIVE decompress_indicators(_, _, _, _, _)
IndRun(out, n, end, ii, c, u) ==
    IF u.ub THEN IndUndefined(out)
    ELSE IF ~IsSmall(Inc64(u.val))
    THEN (IF IsSmall(Neg64(Inc64(u.val))) /\ WordNat(Neg64(Inc64(u.val))) <= ii
          THEN IndUndefined(out)
          ELSE IndResult(SRNX_CORRUPT, out))
    ELSE IF ii + WordNat(Inc64(u.val)) > n THEN IndResult(SRNX_CORRUPT, out)
    ELSE decompress_indicators(Memset(out, ii, c, WordNat(Inc64(u.val))), n, u.d, end,
                               ii + WordNat(Inc64(u.val)))
decompress_indicators(out, n, in, end, ii) ==
    IF in < end
    THEN (IF InData(in) /\ InData(in + 1)
          THEN IndRun(out, n, end, ii, DByte(in), uleb128(in + 1))
          ELSE IndUndefined(out))
    ELSE IF in > end THEN IndResult(SRNX_CORRUPT, out)
    ELSE IndResult(0, Memset(out, ii, 32, n - ii))

\* What srnx_read_obs_ssi_lli leaves in *p_n_values, *p_lli and *p_ssi.
IndDone(code, n, l, s, ub) ==
    [ind EXCEPT !.state = IF ub THEN "undefined" ELSE "done", !.ret = code,
                !.n_values = n, !.lli = l, !.ssi = s]
UlebAt(p) == IF InData(p) THEN uleb128(p) ELSE [val |-> U64Zero, d |-> p, ub |-> TRUE]
\* "Decompress the SSIs": u is the SSI length, r the decompressed SSIs.
ReadSsiRun(n, l, r) == IndDone(r.ret, n, l, r.out, r.ub)
ReadSsi(n, l, u) ==
    IF u.ub \/ ~IsSmall(u.val) THEN IndDone(0, n, l, Raw(n), TRUE)
    ELSE ReadSsiRun(n, l, decompress_indicators(Raw(n), n, u.d, u.d + WordNat(u.val), 0))
\* "Decompress the LLIs": u is the LLI length, r the decompressed LLIs.
ReadLliRun(n, u, r) ==
    IF r.ub THEN IndDone(0, n, r.out, Raw(n), TRUE)
    ELSE IF r.ret # 0 THEN IndDone(r.ret, n, r.out, Raw(n), FALSE)
    ELSE ReadSsi(n, r.out, UlebAt(u.d + WordNat(u.val)))
ReadLli(n, u) ==
    IF u.ub \/ ~IsSmall(u.val) THEN IndDone(0, n, Raw(n), Raw(n), TRUE)
    ELSE ReadLliRun(n, u, decompress_indicators(Raw(n), n, u.d, u.d + WordNat(u.val), 0))
\* realloc is taken to fail for 2^31 bytes or more.
srnx_read_obs_ssi_lli(r) ==
    IF ~IsSmall(r.n_values) THEN IndDone(ENOMEM, 0, <<>>, <<>>, FALSE)
    ELSE ReadLli(WordNat(r.n_values), UlebAt(r.lli_offset))

\* srnx_read_obs_ssi_lli(rdr, &n_values, &lli, &ssi) with lli = ssi = NULL.
ReadIndicators ==
    /\ rdr.state = "open"
    /\ ind.state = "none"
    /\ ind' = srnx_read_obs_ssi_lli(rdr)
    /\ UNCHANGED <<socd, rdr, rv, epoc, leb, trVars, fxVars, rnxVars, contVars>>

(***************************************************************************)
(* srnx_get_obs_by_index and srnx_get_obs_by_name for one code.  The       *)
(* request names the signal the chunk is stored for, and srnx_find_socd    *)
(* is taken to have returned the chunk's offset, as in OpenObs.            *)
(***************************************************************************)
\* The tables of the reader: sys_idx['G' & 31] = 1, sys_info[1].code.
SocdSysIdx == [i \in 0 .. 31 |-> IF i = 7 THEN 1 ELSE 0]
SocdCodes == << << <<76, 49, 0, 0>>, <<76, 49, 67, 0>> >> >>
\* The satellite of the chunk, and the three characters of its code as a
\* struct srnx_obs_code.
SocdSatellite == SubSeq(socd.data, 6, 9)
SocdCode == SubSeq(socd.data, 10, 12) \o <<0>>

\* srnx_obs_name_to_idx(srnx, name, code): the index ii of the code in
\* sys_info[sys_idx].code, or a negative srnx_errno.
CodeIndex(names, code) ==
    CHOOSE ii \in 0 .. Len(names) :
        /\ ii = Len(names) \/ names[ii + 1] = code
        /\ \A jj \in 0 .. ii - 1 : names[jj + 1] # code
srnx_obs_name_to_idx(sys_idx, codes, name, code) ==
    IF sys_idx[name[1] % 32] = 0 THEN SRNX_UNKNOWN_SYSTEM
    ELSE IF Len(codes[sys_idx[name[1] % 32]]) = 0 THEN SRNX_UNKNOWN_SYSTEM
    ELSE IF CodeIndex(codes[sys_idx[name[1] % 32]], code)
                = Len(codes[sys_idx[name[1] % 32]])
    THEN SRNX_UNKNOWN_CODE
    ELSE CodeIndex(codes[sys_idx[name[1] % 32]], code)

\* What a srnx_get_obs_by_index call leaves: the value it returned (or that
\* it never returned, or did something undefined) and, from the indicators
\* i, n_values[0], p_lli[0] and p_ssi[0].
ObsResult(code, i) ==
    [ret |-> code, state |-> "returned", n_values |-> i.n_values, lli |-> i.lli,
     ssi |-> i.ssi]
ObsUndefined(i) == [ObsResult(0, i) EXCEPT !.state = "undefined"]
ObsHung(i) == [ObsResult(0, i) EXCEPT !.state = "hang"]

\* "Read observation values into p_obs[ii]": jj values copied so far.  A
\* pass that copies nothing and leaves the reader as it was repeats
\* for ever.
RECURSIVE ObsDecodeAll(_, _, _)
ObsCount(d, i, jj) ==
    IF d.r.obs_valid < i.n_values - jj THEN d.r.obs_valid ELSE i.n_values - jj
ObsDecoded(i, r, jj, d) ==
    IF d.ub THEN ObsUndefined(i)
    ELSE IF d.res # 0 THEN ObsResult(d.res, i)
    ELSE IF jj + ObsCount(d, i, jj) >= i.n_values THEN ObsResult(0, i)
    ELSE IF d.r = r THEN ObsHung(i)
    ELSE ObsDecodeAll(i, d.r, jj + ObsCount(d, i, jj))
ObsDecodeAll(i, r, jj) == ObsDecoded(i, r, jj, decode_observations(r))

\* After srnx_read_obs_ssi_lli (i) on the opened reader o: realloc of the
\* values, then the loop.
ObsRead(o, i) ==
    IF i.state = "undefined" THEN ObsUndefined(i)
    ELSE IF i.ret # 0 THEN ObsResult(i.ret, i)
    ELSE IF i.n_values >= Pow2(28) THEN ObsResult(ENOMEM, i)
    ELSE IF i.n_values <= 0 THEN ObsResult(0, i)
    ELSE ObsDecodeAll(i, o, 0)
ObsOpened(o) ==
    IF o.state = "undefined" THEN ObsUndefined(ind)
    ELSE IF o.state = "failed" THEN ObsResult(o.err, ind)
    ELSE ObsRead(o, srnx_read_obs_ssi_lli(o))
\* srnx_get_obs_by_index(srnx, name, 1, {idx}, n_values, p_obs, p_lli, p_ssi)
srnx_get_obs_by_index(name, idx) ==
    IF SocdSysIdx[name[1] % 32] = 0 THEN ObsResult(SRNX_UNKNOWN_SYSTEM, ind)
    ELSE IF idx < 0 \/ idx >= Len(SocdCodes[SocdSysIdx[name[1] % 32]])
    THEN ObsResult(SRNX_UNKNOWN_CODE, ind)
    ELSE ObsOpened(srnx_open_obs_by_index)

\* srnx_get_obs_by_name(srnx, name, 1, {code}, n_values, p_obs, p_lli, p_ssi):
\* the call it ends with passes "p_obs, p_ssi, p_lli", so what
\* srnx_get_obs_by_index stores through its p_lli lands in the caller's
\* p_ssi and the reverse.
ObsByName(g) == [g EXCEPT !.lli = g.ssi, !.ssi = g.lli]
ObsNamed(name, c_idx) ==
    IF c_idx < 0 THEN ObsResult(c_idx, ind)
    ELSE ObsByName(srnx_get_obs_by_index(name, c_idx))
srnx_get_obs_by_name(name, code) ==
    ObsNamed(name, srnx_obs_name_to_idx(SocdSysIdx, SocdCodes, name, code))

\* The two calls, each made once on the untouched reader; api keeps what
\* each left in the caller's variables.
ObsCalled(op) == \E k \in 1 .. Len(api) : api[k].op = op
ObsUntouched == rdr.state = "closed" /\ ind.state = "none" /\ rv = <<>>
GetObsByIndex ==
    /\ ObsUntouched /\ ~ObsCalled("by_index")
    /\ api' = Append(api, [op |-> "by_index", code |-> SocdCode,
                           out |-> srnx_get_obs_by_index(SocdSatellite,
                                       CodeIndex(SocdCodes[1], SocdCode))])
    /\ UNCHANGED <<socdVars, srnx, trVars, fxVars, rnxVars>>
GetObsByName ==
    /\ ObsUntouched /\ ~ObsCalled("by_name")
    /\ api' = Append(api, [op |-> "by_name", code |-> SocdCode,
                           out |-> srnx_get_obs_by_name(SocdSatellite, SocdCode)])
    /\ UNCHANGED <<socdVars, srnx, trVars, fxVars, rnxVars>>

NextSocd == OpenObs \/ ReadValue \/ ReadIndicators \/ GetObsByIndex \/ GetObsByName
SpecSocd == InitSocd /\ [][NextSocd]_vars

I64OfInt(v) == IF v < 0 THEN Neg64(U64OfNat(-v)) ELSE U64OfNat(v)

MatrixCount(ch) == 8 * Pow2(ch \div 32)
MatrixBits(ch) == (ch % 32) + 1
Reserved(ch) == ch >= 96 /\ ch # BLOCK_EMPTY /\ ch # BLOCK_SLEB128
\* The data from offset p to end is exactly one bit-matrix block.
LastMatrix(p, end) ==
    /\ InData(p) /\ DByte(p) < 96
    /\ p + 1 + (MatrixCount(DByte(p)) \div 8) * MatrixBits(DByte(p)) = end

RECURSIVE RleExpand(_)
RleExpand(rle) ==
    IF Len(rle) < 2 THEN <<>>
    ELSE Rep(rle[1], rle[2] + 1) \o RleExpand(SubSeq(rle, 3, Len(rle)))
ExpectedIndicators(rle, n) == RleExpand(rle) \o Rep(32, n - RleTotal(rle))

SRNX_NO_CHUNK == -5
\* The number of epochs calloc() can provide.
MaxEpochs == 100

\* The result of srnx_get_epochs: state "done", "undefined", or "hang" for
\* a loop that never ends.
EpochsResult(code, list) == [epoc EXCEPT !.state = "done", !.ret = code, !.list = list]
EpochsUndefined == [epoc EXCEPT !.state = "undefined"]
EpochsHang == [epoc EXCEPT !.state = "hang"]

\* memcmp(chunk, fourcc, 4) == 0 for the chunk at offset whence.
TagAt(whence, fourcc) == \A k \in 1 .. 4 : DByte(whence + k - 1) = fourcc[k]

\* srnx_find_chunk(srnx, fourcc, whence, ...): [ret, payload, len, start,
\* next, ub], start and next being *p_start and *p_next.
NoChunk(code, undef) ==
    [ret |-> code, payload |-> 0, len |-> 0, start |-> -1, next |-> 0, ub |-> undef]
RECURSIVE srnx_find_chunk(_, _)
FoundChunk(fourcc, whence, u) ==
    IF u.ub \/ ~IsSmall(u.val) THEN NoChunk(0, TRUE)
    ELSE IF u.d + WordNat(u.val) > data_size THEN NoChunk(SRNX_CORRUPT, FALSE)
    ELSE IF TagAt(whence, fourcc)
    THEN [ret |-> 0, payload |-> u.d, len |-> WordNat(u.val), start |-> whence,
          next |-> u.d + WordNat(u.val) + chunk_digest_length, ub |-> FALSE]
    ELSE srnx_find_chunk(fourcc, u.d + WordNat(u.val) + chunk_digest_length)
srnx_find_chunk(fourcc, whence) ==
    IF whence + 4 < data_size THEN FoundChunk(fourcc, whence, uleb128(whence + 4))
    ELSE NoChunk(SRNX_NO_CHUNK, FALSE)

\* A uint64_t below 2^42 as <<q, r>> with value q * 10^9 + r.
E9 == 1000000000
Add9(a, b) == <<a[1] + b[1] + (a[2] + b[2]) \div E9, (a[2] + b[2]) % E9>>
\* 2^i for i <= 41 as a pair of base-10^9 limbs (2^30 = 10^9 + 73741824).
Pow2E9(i) ==
    IF i < 30 THEN <<0, Pow2(i)>>
    ELSE LET k == Pow2(i - 30)
         IN  Add9(<<k + (k * 73) \div 1000, ((k * 73) % 1000) * 1000000>>,
                  <<(k * 741824) \div E9, (k * 741824) % E9>>)
\* The bits lo..hi of a word below 2^42, summed as limb pairs.
RECURSIVE SumE9(_, _, _)
SumE9(w, lo, hi) ==
    IF lo = hi THEN (IF lo \in w THEN Pow2E9(lo) ELSE <<0, 0>>)
    ELSE Add9(SumE9(w, lo, (lo + hi) \div 2), SumE9(w, (lo + hi) \div 2 + 1, hi))
WordE9From(w, i) == SumE9(w, i, 41)
\* "time > 2460610000000"
TimeTooBig(w) ==
    \/ \E i \in w : i > 41
    \/ WordE9From(w, 0)[1] > 2460
    \/ WordE9From(w, 0)[1] = 2460 /\ WordE9From(w, 0)[2] > 610000000

\* The interval added to sec_e7: "if (i64 < 0) i64 *= -10000000".  An
\* interval that does not fit an int makes "sec_e7 += i64" leave the int
\* range (ok FALSE).
IntervalOf(v) ==
    IF 63 \in v
    THEN IF IsSmall(Neg64(v)) /\ WordNat(Neg64(v)) <= 100
         THEN [ok |-> TRUE, val |-> WordNat(Neg64(v)) * 10000000]
         ELSE [ok |-> FALSE, val |-> 0]
    ELSE IF IsSmall(v) /\ WordNat(v) <= E9 THEN [ok |-> TRUE, val |-> WordNat(v)]
    ELSE [ok |-> FALSE, val |-> 0]

\* "Advance seconds count and check for minute rollover": prev is
\* epoch->sec_e7, the value just stored.
Ticked(e, prev, iv) ==
    IF prev + iv >= 600000000 /\ prev < 600000000
    THEN [e EXCEPT !.sec = prev + iv - 600000000,
                   !.hh_mm = e.hh_mm + (IF e.mm + 1 >= 60 THEN 41 ELSE 1),
                   !.mm = IF e.mm + 1 >= 60 THEN 0 ELSE e.mm + 1]
    ELSE [e EXCEPT !.sec = prev + iv]

\* "Unpack this epoch span": len epochs from e.idx; e is [d, idx, list,
\* sec, hh_mm, mm, ub].  ub: a store past the array, or a sum that leaves
\* the range of int sec_e7 or short hh_mm.
Stored1(e, date, iv) ==
    IF e.ub THEN e
    ELSE IF e.idx >= Len(e.list) \/ e.sec > 2147483647 - iv \/ e.hh_mm > 32726
    THEN [e EXCEPT !.ub = TRUE]
    ELSE Ticked([e EXCEPT !.list[e.idx + 1] =
                              [@ EXCEPT !.yyyy_mm_dd = date, !.hh_mm = e.hh_mm,
                                        !.sec_e7 = e.sec],
                          !.idx = e.idx + 1], e.sec, iv)
\* Four and sixteen iterations of the loop.
Stored4(e, date, iv) == Stored1(Stored1(Stored1(Stored1(e, date, iv), date, iv), date, iv), date, iv)
Stored16(e, date, iv) == Stored4(Stored4(Stored4(Stored4(e, date, iv), date, iv), date, iv), date, iv)
RECURSIVE Unpack(_, _, _, _)
Unpack(e, len, date, iv) ==
    IF len = 0 \/ e.ub THEN e
    ELSE IF len >= 16 THEN Unpack(Stored16(e, date, iv), len - 16, date, iv)
    ELSE IF len >= 4 THEN Unpack(Stored4(e, date, iv), len - 4, date, iv)
    ELSE Unpack(Stored1(e, date, iv), len - 1, date, iv)

\* "Convert two-digit year?"
DateOf(date) ==
    IF date < 1000000 THEN date + (IF date < 800000 THEN 20000000 ELSE 19000000)
    ELSE date

\* "idx + len" wraps around 2^64.
WrapsPast(len, idx) == len # {} /\ IsSmall(Neg64(len)) /\ WordNat(Neg64(len)) <= idx

ZeroEpoch == [yyyy_mm_dd |-> 0, hh_mm |-> 0, sec_e7 |-> 0, clock_offset |-> U64Zero]

\* "Walk over the receiver clock offset spans" and "Zero the remaining
\* receiver clock offsets"; s is [d, idx, list].
RECURSIVE ClockLoop(_, _, _)
ClockCount(s, n, end, val, u) ==
    IF u.ub THEN EpochsUndefined
    ELSE IF u.d >= end THEN EpochsResult(SRNX_CORRUPT, s.list)
    ELSE IF ~IsSmall(u.val) \/ s.idx + WordNat(u.val) > Len(s.list) THEN EpochsUndefined
    ELSE IF u.val = {} /\ u.d = s.d THEN EpochsHang
    ELSE ClockLoop([d |-> u.d, idx |-> s.idx + WordNat(u.val),
                    list |-> [k \in 1 .. Len(s.list) |->
                                IF k > s.idx /\ k <= s.idx + WordNat(u.val)
                                THEN [s.list[k] EXCEPT !.clock_offset = val]
                                ELSE s.list[k]]], n, end)
ClockValue(s, n, end, v) ==
    IF v.ub THEN EpochsUndefined
    ELSE IF v.d >= end THEN EpochsResult(SRNX_CORRUPT, s.list)
    ELSE ClockCount(s, n, end, v.val, uleb128(v.d))
ClockLoop(s, n, end) ==
    IF s.d < end /\ s.idx < n THEN ClockValue(s, n, end, sleb128(s.d))
    ELSE EpochsResult(0, [k \in 1 .. Len(s.list) |->
                            IF k > s.idx THEN [s.list[k] EXCEPT !.clock_offset = U64Zero]
                            ELSE s.list[k]])

\* "Walk over the epoch spans", one stage per value read: the interval
\* (v), the count (u), the date (u) and the time (u, t its <<hh_mm, sec_e7>>).
RECURSIVE SpanLoop(_, _, _)
SpanUnpacked(s, e, n, end) ==
    IF e.ub THEN EpochsUndefined
    ELSE IF e.idx = s.idx /\ e.d = s.d THEN EpochsHang
    ELSE SpanLoop([d |-> e.d, idx |-> e.idx, list |-> e.list], n, end)
SpanStart(s, n, end, iv, len, date, d, t) ==
    IF len > 0 /\ ~iv.ok THEN EpochsUndefined
    ELSE SpanUnpacked(s, Unpack([d |-> d, idx |-> s.idx, list |-> s.list, sec |-> t[2],
                                 hh_mm |-> t[1], mm |-> t[1] % 60, ub |-> FALSE],
                                len, date, iv.val), n, end)
SpanTime(s, n, end, iv, len, date, u) ==
    IF u.ub THEN EpochsUndefined
    ELSE IF u.d >= end \/ TimeTooBig(u.val) THEN EpochsResult(SRNX_CORRUPT, s.list)
    ELSE SpanStart(s, n, end, iv, len, date, u.d, WordE9From(u.val, 0))
SpanDate(s, n, end, iv, len, u) ==
    IF u.ub THEN EpochsUndefined
    ELSE IF u.d >= end \/ ~IsSmall(u.val) THEN EpochsResult(SRNX_CORRUPT, s.list)
    ELSE SpanTime(s, n, end, iv, len, DateOf(WordNat(u.val)), uleb128(u.d))
SpanCount(s, n, end, iv, u) ==
    IF u.ub THEN EpochsUndefined
    ELSE IF WrapsPast(u.val, s.idx) THEN EpochsUndefined
    ELSE IF u.d >= end \/ GtNat(u.val, n - s.idx) THEN EpochsResult(SRNX_CORRUPT, s.list)
    ELSE SpanDate(s, n, end, iv, WordNat(u.val), uleb128(u.d))
SpanInterval(s, n, end, v) ==
    IF v.ub THEN EpochsUndefined
    ELSE IF v.d >= end THEN EpochsResult(SRNX_CORRUPT, s.list)
    ELSE SpanCount(s, n, end, IntervalOf(v.val), uleb128(v.d))
SpanLoop(s, n, end) ==
    IF s.idx < n /\ s.d < end THEN SpanInterval(s, n, end, sleb128(s.d))
    ELSE ClockLoop([d |-> s.d, idx |-> 0, list |-> s.list], n, end)

\* "How many epochs are in this file?" and the calloc of the array.
EpochCount(end, u) ==
    IF u.ub THEN EpochsUndefined
    ELSE IF u.d > end THEN EpochsResult(SRNX_CORRUPT, <<>>)
    ELSE IF ~IsSmall(u.val) \/ WordNat(u.val) > MaxEpochs THEN EpochsResult(ENOMEM, <<>>)
    ELSE SpanLoop([d |-> u.d, idx |-> 0, list |-> [k \in 1 .. WordNat(u.val) |-> ZeroEpoch]],
                  WordNat(u.val), end)

\* srnx_find_chunk_cached(srnx, fourcc, p_start, ...) with *p_start = start.
\* A known chunk has its length decoded by uleb128(&chunk) with chunk on the
\* tag, and *p_payload is where that leaves chunk; *p_start stays.
CachedChunk(start, u) ==
    IF u.ub \/ ~IsSmall(u.val) THEN NoChunk(0, TRUE)
    ELSE IF u.d + WordNat(u.val) > data_size
    THEN [NoChunk(SRNX_CORRUPT, FALSE) EXCEPT !.start = start]
    ELSE [ret |-> 0, payload |-> u.d, len |-> WordNat(u.val), start |-> start,
          next |-> u.d + WordNat(u.val) + chunk_digest_length, ub |-> FALSE]
ScannedChunk(start, c) == IF c.ret = 0 \/ c.ub THEN c ELSE [c EXCEPT !.start = start]
srnx_find_chunk_cached(fourcc, start) ==
    IF start = 0 THEN [NoChunk(SRNX_NO_CHUNK, FALSE) EXCEPT !.start = start]
    ELSE IF start > 0
    THEN (IF start >= data_size
          THEN [NoChunk(SRNX_NO_CHUNK, FALSE) EXCEPT !.start = start]
          ELSE IF ~TagAt(start, fourcc)
          THEN [NoChunk(SRNX_BAD_STATE, FALSE) EXCEPT !.start = start]
          ELSE CachedChunk(start, uleb128(start)))
    ELSE ScannedChunk(start, srnx_find_chunk(fourcc, next_offset))
GotChunk(c) ==
    IF c.ub THEN EpochsUndefined
    ELSE IF c.ret # 0 THEN EpochsResult(c.ret, <<>>)
    ELSE EpochCount(c.payload + c.len, uleb128(c.payload))
srnx_get_epochs == GotChunk(srnx_find_chunk_cached(<<69, 80, 79, 67>>, epoc_offset))

(***************************************************************************)
(* Succinct_RINEX.md: well-formed EPOC chunks.  A span is [iv, whole,      *)
(* count, date, hh_mm, sec]: the interval in units of 1e-7 s, whether it   *)
(* is stored as negated whole seconds, the number of epochs, and the first *)
(* epoch's date and time of day.                                           *)
(***************************************************************************)
\* ULEB128 of hi * 10^6 + lo.
RECURSIVE EncUlebBig(_, _)
EncUlebBig(hi, lo) ==
    IF hi = 0 THEN EncUleb(lo)
    ELSE <<128 + (((hi % 128) * 1000000 + lo) % 128)>>
             \o EncUlebBig(hi \div 128, ((hi % 128) * 1000000 + lo) \div 128)
\* "hours times 1e11 plus minutes times 1e9 plus seconds times 1e7"
EncTime(hh_mm, sec) == EncUlebBig(hh_mm * 1000 + sec \div 1000000, sec % 1000000)
EncSpan(sp) ==
    EncSleb(IF sp.whole THEN -(sp.iv \div 10000000) ELSE sp.iv)
        \o EncUleb(sp.count - 1) \o EncUleb(sp.date) \o EncTime(sp.hh_mm, sp.sec)
RECURSIVE EncSpans(_)
EncSpans(spans) == IF spans = <<>> THEN <<>> ELSE EncSpan(Head(spans)) \o EncSpans(Tail(spans))
RECURSIVE SpanTotal(_)
SpanTotal(spans) == IF spans = <<>> THEN 0 ELSE Head(spans).count + SpanTotal(Tail(spans))
\* The chunk, with no clock offsets, followed by the tag of the next chunk.
EpocChunk(spans) ==
    <<69, 80, 79, 67>> \o Sized(EncUleb(SpanTotal(spans)) \o EncSpans(spans))
        \o <<83, 65, 84, 69>>
\* An EVTF chunk: epoch index 0 and the event record "X\n".
EvtfChunk == <<69, 86, 84, 70>> \o Sized(<<0, 88, 10>>)

\* "minutes and seconds reset to zero when the new sum is exactly 60, but
\* hours do not wrap": the epoch after t = [hh_mm, sec].
NextEpoch(t, iv) ==
    IF t.sec + iv = 600000000
    THEN [hh_mm |-> IF t.hh_mm % 100 = 59 THEN t.hh_mm + 41 ELSE t.hh_mm + 1, sec |-> 0]
    ELSE [hh_mm |-> t.hh_mm, sec |-> t.sec + iv]
RECURSIVE SpanEpochs(_, _, _)
SpanEpochs(sp, t, left) ==
    IF left = 0 THEN <<>>
    ELSE <<[yyyy_mm_dd |-> sp.date, hh_mm |-> t.hh_mm, sec_e7 |-> t.sec]>>
             \o SpanEpochs(sp, NextEpoch(t, sp.iv), left - 1)
RECURSIVE ExpectedEpochs(_)
ExpectedEpochs(spans) ==
    IF spans = <<>> THEN <<>>
    ELSE SpanEpochs(Head(spans), [hh_mm |-> Head(spans).hh_mm, sec |-> Head(spans).sec],
                    Head(spans).count)
             \o ExpectedEpochs(Tail(spans))

\* The spans tried: 30 s and 1 s intervals, in both encodings, from the
\* start, the middle and the last minute of four hours of 2020-01-01.
EpocHours == {0, 1, 12, 23}
EpocMinutes == {0, 58, 59}
EpocIntervals == { [iv |-> 300000000, whole |-> FALSE], [iv |-> 300000000, whole |-> TRUE],
                   [iv |-> 10000000, whole |-> TRUE] }
MaxSpanCount == 3
EpocSpans ==
    { [iv |-> i.iv, whole |-> i.whole, count |-> c, date |-> 20200101,
       hh_mm |-> h * 100 + m, sec |-> x] :
        i \in EpocIntervals, c \in 1 .. MaxSpanCount, h \in EpocHours, m \in EpocMinutes,
        x \in {0, 300000000} }
\* Chunks whose counts pass the last epoch: the epoch count one less than
\* the span stores, or, after a span that fills the array, a clock-offset
\* run {7, count_minus_1 = n} of n + 1 epochs.
SpanOverrunChunk(sp) ==
    <<69, 80, 79, 67>> \o Sized(EncUleb(sp.count - 1) \o EncSpan(sp))
        \o <<83, 65, 84, 69>>
ClockOverrunChunk(sp) ==
    <<69, 80, 79, 67>>
        \o Sized(EncUleb(sp.count) \o EncSpan(sp) \o EncSleb(7) \o EncUleb(sp.count))
        \o <<83, 65, 84, 69>>
EpocCrafted ==
    { [data |-> SpanOverrunChunk(sp), spans |-> <<sp>>, wf |-> FALSE] :
        sp \in {x \in EpocSpans : x.hh_mm = 1200 /\ x.count = 3} }
    \cup { [data |-> ClockOverrunChunk(sp), spans |-> <<sp>>, wf |-> FALSE] :
        sp \in {x \in EpocSpans : x.hh_mm = 1200 /\ x.count = 2} }
EpocFiles ==
    { [data |-> EpocChunk(<<sp>>), spans |-> <<sp>>, wf |-> TRUE] : sp \in EpocSpans }
    \cup { [data |-> EvtfChunk \o EpocChunk(<<sp>>), spans |-> <<sp>>, wf |-> TRUE] :
              sp \in {x \in EpocSpans : x.hh_mm = 1200 /\ x.count = 3} }
    \cup { [data |-> EpocChunk(<<sp, [sp EXCEPT !.date = 20200102]>>),
            spans |-> <<sp, [sp EXCEPT !.date = 20200102]>>, wf |-> TRUE] :
              sp \in {x \in EpocSpans : x.hh_mm = 2359 /\ x.count = 2} }
    \cup EpocCrafted

(***************************************************************************)
(* Specification SpecEpoc: srnx_get_epochs on one file.                    *)
(***************************************************************************)
InitEpoc ==
    /\ TrIdle /\ FxIdle /\ RnxIdle /\ ContIdle
    /\ rdr = [state |-> "none", err |-> 0, obs_valid |-> 0, obs_idx |-> 0,
              block_code |-> 0, block_left |-> 0, n_values |-> {}, lli_offset |-> 0,
              data_offset |-> 0, data_end |-> 0, obs |-> <<>>]
    /\ rv = <<>>
    /\ ind = [rle |-> <<>>, n |-> 0, wf |-> FALSE, state |-> "none", ret |-> 0,
              n_values |-> 0, lli |-> <<>>, ssi |-> <<>>]
    /\ leb = [v |-> {}, u |-> {}, enc |-> <<>>, state |-> "idle", val |-> {}, d |-> 0]
    /\ \E f \in EpocFiles :
          /\ socd = [data |-> f.data, values |-> <<>>, wf |-> f.wf,
                     coding |-> [order |-> 0, scale |-> 0, init |-> <<>>, resid |-> <<>>]]
          /\ epoc = [spans |-> f.spans, wf |-> f.wf, state |-> "closed", ret |-> 0,
                     list |-> <<>>]

\* srnx_get_epochs(srnx, &epochs, &len) with epochs = NULL.
GetEpochs ==
    /\ epoc.state = "closed"
    /\ epoc' = srnx_get_epochs
    /\ UNCHANGED <<socd, rdr, rv, ind, leb, trVars, fxVars, rnxVars, contVars>>

NextEpoc == GetEpochs
SpecEpoc == InitEpoc /\ [][NextEpoc]_vars

\* The date and time of the decoded epochs.
EpochTimes(list) ==
    [k \in 1 .. Len(list) |->
        [yyyy_mm_dd |-> list[k].yyyy_mm_dd, hh_mm |-> list[k].hh_mm,
         sec_e7 |-> list[k].sec_e7]]

\* C12: decoding an EPOC span {interval, count_minus_1 = c, date, time}
\* produces exactly c + 1 consecutive epochs, the first at the given date
\* and time; one span of interval 30 s, c = 2, 2020-01-01 12:00:00 gives
\* 12:00:00.0, 12:00:30.0 and 12:01:00.0.
C12_EpochSpans ==
    (epoc.wf /\ epoc.state # "closed") =>
        /\ epoc.state = "done"
        /\ epoc.ret = 0
        /\ EpochTimes(epoc.list) = ExpectedEpochs(epoc.spans)

\* The span that holds the k-th epoch, and whether it is the span's first.
RECURSIVE SpanOf(_, _)
SpanOf(spans, k) ==
    IF k <= Head(spans).count THEN [sp |-> Head(spans), first |-> k = 1]
    ELSE SpanOf(Tail(spans), k - Head(spans).count)

\* C13: within a decoded span each epoch's seconds are the previous epoch's
\* seconds plus the interval; when the new whole-second value equals 60 the
\* seconds reset to 0 and the minute advances, minute 59 carrying into the
\* next hour, so that every decoded epoch has sec_e7 < 600000000 and a
\* minute part below 60 (no span here contains a leap second).
C13_SpanTicks ==
    (epoc.wf /\ epoc.state = "done" /\ epoc.ret = 0) =>
        /\ \A k \in 1 .. Len(epoc.list) :
              epoc.list[k].sec_e7 < 600000000 /\ epoc.list[k].hh_mm % 100 < 60
        /\ \A k \in 1 .. Min(Len(epoc.list), SpanTotal(epoc.spans)) :
              ~SpanOf(epoc.spans, k).first =>
                  [hh_mm |-> epoc.list[k].hh_mm, sec |-> epoc.list[k].sec_e7]
                      = NextEpoch([hh_mm |-> epoc.list[k - 1].hh_mm,
                                   sec |-> epoc.list[k - 1].sec_e7],
                                  SpanOf(epoc.spans, k).sp.iv)

(***************************************************************************)
(* rinex_parse.c: rinex_open, rnx_copy_header, rnx_open_v2, rnx_open_v3,    *)
(* and rinex_p.c: rnx_find_header.  Texts are sequences of characters;     *)
(* after a successful open, buffer holds the characters of the header      *)
(* copy.                                                                   *)
(***************************************************************************)
CR == "\r"
VersionLabel ==
    <<"R", "I", "N", "E", "X", " ", "V", "E", "R", "S", "I", "O", "N", " ",
      "/", " ", "T", "Y", "P", "E">>
end_of_header ==
    <<"E", "N", "D", " ", "O", "F", " ", "H", "E", "A", "D", "E", "R">>
n_obs_label ==
    <<"#", " ", "/", " ", "T", "Y", "P", "E", "S", " ", "O", "F", " ", "O",
      "B", "S", "E", "R", "V">>
sys_n_obs ==
    <<"S", "Y", "S", " ", "/", " ", "#", " ", "/", " ", "O", "B", "S", " ",
      "T", "Y", "P", "E", "S">>
Version2 ==
    <<" ", " ", " ", " ", " ", "2", ".">>
Version3 ==
    <<" ", " ", " ", " ", " ", "3", ".">>

\* t[i] for a 0-based offset i; a character outside the text compares
\* unequal to every character looked for.
TAt(t, i) == IF i >= 0 /\ i < Len(t) THEN t[i + 1] ELSE "?"
\* !memcmp(t + o, s, strlen(s))
Matches(t, o, s) == \A k \in 1 .. Len(s) : TAt(t, o + k - 1) = s[k]
SetMin(S) == CHOOSE x \in S : \A y \in S : x <= y
\* strchr(t + o, c) - t, or -1 for NULL.
IndexFrom(t, o, c) ==
    IF \E k \in o .. Len(t) - 1 : TAt(t, k) = c
    THEN SetMin({k \in o .. Len(t) - 1 : TAt(t, k) = c})
    ELSE -1

\* rnx_find_header(in, in_size, header, sizeof_header), header without its
\* terminating NUL: [res, ub].  memmem (rinex_p.c's own, a memchr for the
\* first character then a memcmp) is handed in_size bytes from
\* in + ofs, so after the first pass it searches ofs bytes past the buffer:
\* a match inside the buffer is returned, and without one the search
\* leaves the buffer.  pos[-61] for pos = in + 60 is in[-1].
RECURSIVE FindFrom(_, _, _, _)
MemMem(in, in_size, ofs, header) ==
    IF \E q \in ofs .. in_size - Len(header) : Matches(in, q, header)
    THEN SetMin({q \in ofs .. in_size - Len(header) : Matches(in, q, header)})
    ELSE -1
SpacesTo(in, pos, n) ==
    IF \E k \in n .. 20 : TAt(in, pos + k) # " "
    THEN SetMin({k \in n .. 20 : TAt(in, pos + k) # " "})
    ELSE 21
FindAfter(in, in_size, header, pos, ii) ==
    IF TAt(in, pos + ii) # NL THEN FindFrom(in, in_size, header, pos + ii)
    ELSE [res |-> pos - 60, ub |-> FALSE]
FindAt(in, in_size, header, ofs, pos) ==
    IF pos < 0
    THEN [res |-> RINEX_ERR_BAD_FORMAT, ub |-> ofs > 0]
    ELSE IF pos < 60 THEN FindFrom(in, in_size, header, pos + 1)
    ELSE IF pos = 60 THEN [res |-> RINEX_ERR_BAD_FORMAT, ub |-> TRUE]
    ELSE IF TAt(in, pos - 61) # NL THEN FindFrom(in, in_size, header, pos + 1)
    ELSE FindAfter(in, in_size, header, pos, SpacesTo(in, pos, Len(header)))
FindFrom(in, in_size, header, ofs) ==
    FindAt(in, in_size, header, ofs, MemMem(in, in_size, ofs, header))
rnx_find_header(in, in_size, header) == FindFrom(in, in_size, header, 0)

\* rnx_copy_header(out, in, in_len), one line per step: out is out[0 .. jj),
\* ii the input offset of the line's first character and eol the offset of
\* its '\n'.  Every character is copied; at a '\n' the length since the
\* last '\n' is checked and "while (out[jj-1] == ' ') jj--" takes the
\* spaces before it away, which leaves the array when only spaces precede.
Trimmed(out) ==
    IF \E k \in 1 .. Len(out) : out[k] # " "
    THEN SubSeq(out, 1, CHOOSE k \in 1 .. Len(out) :
                           out[k] # " " /\ \A j \in k + 1 .. Len(out) : out[j] = " ")
    ELSE <<>>
RECURSIVE CopyFrom(_, _, _, _)
CopyLine(in, in_len, ii, out, eol) ==
    IF eol < 0 \/ eol >= in_len
    THEN [res |-> Len(out) + in_len - ii, out |-> out \o SubSeq(in, ii + 1, in_len),
          ub |-> FALSE]
    ELSE IF eol - ii < 61 \/ eol - ii > 80
    THEN [res |-> RINEX_ERR_BAD_FORMAT, out |-> out \o SubSeq(in, ii + 1, eol + 1),
          ub |-> FALSE]
    ELSE IF Trimmed(out \o SubSeq(in, ii + 1, eol)) = <<>>
    THEN [res |-> 0, out |-> out, ub |-> TRUE]
    ELSE CopyFrom(in, in_len, eol + 1, Trimmed(out \o SubSeq(in, ii + 1, eol)) \o <<NL>>)
CopyFrom(in, in_len, ii, out) ==
    IF ii >= in_len THEN [res |-> Len(out), out |-> out, ub |-> FALSE]
    ELSE CopyLine(in, in_len, ii, out, IndexFrom(in, ii, NL))
rnx_copy_header(in, in_len) == CopyFrom(in, in_len, 0, <<>>)

\* parse_uint(&value, t + o, width) on a text.
RECURSIVE TextDigits(_, _, _, _)
TextDigits(t, o, width, value) ==
    IF width <= 0 THEN [err |-> "ok", value |-> value]
    ELSE IF TAt(t, o) \notin Digits THEN [err |-> EINVAL, value |-> 0]
    ELSE TextDigits(t, o + 1, width - 1, value * 10 + Ord(TAt(t, o)) - 48)
RECURSIVE TextUint(_, _, _)
TextUint(t, o, width) ==
    IF width > 0 /\ TAt(t, o) = " " THEN TextUint(t, o + 1, width - 1)
    ELSE TextDigits(t, o, width, 0)

\* c & 31 for the satellite system letters.
SysIndex(c) ==
    CASE c = " " -> 0 [] c = "E" -> 5 [] c = "G" -> 7 [] c = "M" -> 13
      [] c = "R" -> 18 [] c = "S" -> 19 [] OTHER -> 31
NoObs == [i \in 0 .. 31 |-> 0]

\* What rinex_open returns: err is NULL ("") or the message, and with NULL
\* the parser fields it has set.
OpenError(msg) ==
    [opened |-> "failed", err |-> msg, version |-> 0, parse_ofs |-> 0, buffer |-> <<>>,
     buffer_len |-> 0, buffer_alloc |-> 0, n_obs |-> <<>>, obs_alloc |-> 0]
\* A call that left the stream buffer or the header copy.
OpenLeftBuffer == [OpenError("") EXCEPT !.opened = "undefined"]
Opened(v, res, c, nobs) ==
    [opened |-> "ok", err |-> "", version |-> v, parse_ofs |-> res, buffer |-> c.out,
     buffer_len |-> c.res, buffer_alloc |-> res, n_obs |-> nobs,
     obs_alloc |-> OBS_ALLOC_INIT]

\* rnx_open_v2 on the header copy c.out.
OpenV2Count(res, c, obs_type, u) ==
    IF u.err # "ok" \/ u.value < 1 THEN OpenError("Invalid number of observations")
    ELSE Opened(2, res, c,
                [i \in 0 .. 31 |->
                    IF obs_type = "M"
                    THEN (IF i \in {0, 5, 7, 18, 19} THEN u.value ELSE 0)
                    ELSE IF i = 0 \/ i = SysIndex(obs_type) \/ (obs_type = " " /\ i = 7)
                    THEN u.value ELSE 0])
OpenV2Line(res, c, f) ==
    IF f.ub THEN OpenLeftBuffer
    ELSE IF f.res < 0 THEN OpenError("Could not find PRN / # OF OBS line")
    ELSE OpenV2Count(res, c, TAt(c.out, 40), TextUint(c.out, f.res, 6))
rnx_open_v2(res, c) ==
    IF TAt(c.out, 40) \notin {" ", "G", "R", "S", "E", "M"}
    THEN OpenError("Invalid satellite system for file")
    ELSE OpenV2Line(res, c, rnx_find_header(c.out, c.res, n_obs_label))

\* rnx_open_v3 on the header copy: the while loop over the lines that carry
\* the label, from the line at offset line, with the counts nobs so far.
RECURSIVE OpenV3Lines(_, _, _, _)
RECURSIVE OpenV3Successors(_, _, _, _, _)
\* "for (ii = 13; ii < n_obs; ii += 13)", then "Skip to the next line".
OpenV3Successors(res, c, line, nobs, left) ==
    IF IndexFrom(c.out, line, NL) < 0 THEN OpenLeftBuffer
    ELSE IF left <= 0 THEN OpenV3Lines(res, c, IndexFrom(c.out, line, NL) + 1, nobs)
    ELSE IF TAt(c.out, IndexFrom(c.out, line, NL) + 1) # " "
            \/ ~Matches(c.out, IndexFrom(c.out, line, NL) + 61, sys_n_obs)
    THEN OpenError("Expected a successor SYS / # / OBS TYPES line")
    ELSE OpenV3Successors(res, c, IndexFrom(c.out, line, NL) + 1, nobs, left - 1)
OpenV3Count(res, c, line, nobs, u) ==
    IF u.err # "ok" \/ u.value < 1 THEN OpenError("Invalid number of observations")
    ELSE OpenV3Successors(res, c, line,
                          [nobs EXCEPT ![SysIndex(TAt(c.out, line))] = u.value],
                          (u.value - 1) \div 13)
OpenV3Lines(res, c, line, nobs) ==
    IF ~Matches(c.out, line + 60, sys_n_obs) THEN Opened(3, res, c, nobs)
    ELSE OpenV3Count(res, c, line, nobs, TextUint(c.out, line + 3, 3))
OpenV3Line(res, c, f) ==
    IF f.ub THEN OpenLeftBuffer
    ELSE IF f.res < 0 THEN OpenError("Could not find SYS / # / OBS TYPES line")
    ELSE OpenV3Lines(res, c, f.res, NoObs)
rnx_open_v3(res, c) == OpenV3Line(res, c, rnx_find_header(c.out, c.res, sys_n_obs))

\* rinex_open on the stream window in (stream->buffer, stream->size bytes).
OpenCopied(in, res, c) ==
    IF c.ub THEN OpenLeftBuffer
    ELSE IF c.res < 0 THEN OpenError("Invalid header line detected")
    ELSE IF Matches(in, 0, Version2) THEN rnx_open_v2(res, c) ELSE rnx_open_v3(res, c)
OpenHeader(in, f) ==
    IF f.ub THEN OpenLeftBuffer
    ELSE IF f.res < 1 THEN OpenError("Could not find end of header")
    ELSE IF ~Matches(in, 0, Version2) /\ ~Matches(in, 0, Version3)
    THEN OpenError("Unsupported RINEX version number")
    ELSE OpenCopied(in, IndexFrom(in, f.res, NL) + 1,
                    rnx_copy_header(in, IndexFrom(in, f.res, NL) + 1))
OpenWindow(in) ==
    IF Len(in) < 80 THEN OpenError("strerror")
    ELSE IF ~Matches(in, 60, VersionLabel) THEN OpenError("Unrecognized file format")
    ELSE IF TAt(in, 20) # "O" THEN OpenError("Not an observation RINEX file")
    ELSE OpenHeader(in, rnx_find_header(in, Len(in), end_of_header))
rinex_open(adv) ==
    IF adv.err # "ok" THEN OpenError("strerror")
    ELSE OpenWindow(SubSeq(file, adv.st.start + 1, adv.st.start + adv.st.size))

(***************************************************************************)
(* srnx.c: uleb128 and sleb128 as functions of the bytes they read.         *)
(* socd.data holds the encoding followed by one more byte of the file;     *)
(* leb.v is the signed number, leb.u the unsigned number the format        *)
(* document stores for it, leb.enc its bytes.                              *)
(***************************************************************************)
Xor64(x, y) == (x \ y) \cup (y \ x)
\* "shifted left one bit and xor'ed with a value consisting of the sign bit
\* shifted right infinitely"
ZigZag(v) == Xor64(Shl64(v, 1), Sar64(v, 63))
\* The seven low bits of a word, as a number.
Low7(w) == WordNat(w \cap (0 .. 6))
\* "the seven least significant bits of each byte correspond to the seven
\* next least significant bits of the integer; the most significant bit of
\* each non-terminal byte is set"
RECURSIVE EncUleb64(_)
EncUleb64(w) ==
    IF w \subseteq 0 .. 6 THEN <<Low7(w)>>
    ELSE <<128 + Low7(w)>> \o EncUleb64(Shr64(w, 7))
\* The sum over i of (byte_i AND 127) shifted left by 7 i.
UlebValue(enc) ==
    UNION {Shl64(U64OfByte(enc[i] % 128), 7 * (i - 1)) : i \in 1 .. Len(enc)}

\* The signed numbers decoded: 0, +-2^i, +-(2^i - 1) and those next to 0.
LebValues ==
    {{i} : i \in BitPos} \cup {0 .. i : i \in BitPos}
        \cup {Neg64({i}) : i \in 0 .. 62} \cup {I64OfInt(k) : k \in -4 .. 4}
\* The bytes that follow the encoding in the file.
LebTails == {0, 255}

InitLeb ==
    /\ TrIdle /\ FxIdle /\ RnxIdle /\ ContIdle
    /\ rdr = [state |-> "none", err |-> 0, obs_valid |-> 0, obs_idx |-> 0,
              block_code |-> 0, block_left |-> 0, n_values |-> {}, lli_offset |-> 0,
              data_offset |-> 0, data_end |-> 0, obs |-> <<>>]
    /\ rv = <<>>
    /\ epoc = [spans |-> <<>>, wf |-> FALSE, state |-> "none", ret |-> 0, list |-> <<>>]
    /\ ind = [rle |-> <<>>, n |-> 0, wf |-> FALSE, state |-> "none", ret |-> 0,
              n_values |-> 0, lli |-> <<>>, ssi |-> <<>>]
    /\ \E v \in LebValues : \E tail \in LebTails :
          /\ socd = [data |-> EncUleb64(ZigZag(v)) \o <<tail>>, values |-> <<>>,
                     wf |-> TRUE,
                     coding |-> [order |-> 0, scale |-> 0, init |-> <<>>, resid |-> <<>>]]
          /\ leb = [v |-> v, u |-> ZigZag(v), enc |-> EncUleb64(ZigZag(v)),
                    state |-> "none", val |-> {}, d |-> 0]

\* What the call leaves: the number returned and the offset *d.
LebResult(kind, r) ==
    [leb EXCEPT !.state = IF r.ub THEN "undefined" ELSE kind, !.val = r.val, !.d = r.d]
\* uleb128(&d) with d = srnx->data.
Uleb128 ==
    /\ leb.state = "none"
    /\ leb' = LebResult("uleb", uleb128(0))
    /\ UNCHANGED <<socd, rdr, rv, epoc, ind, trVars, fxVars, rnxVars, contVars>>
\* sleb128(&d) with d = srnx->data.
Sleb128 ==
    /\ leb.state = "none"
    /\ leb' = LebResult("sleb", sleb128(0))
    /\ UNCHANGED <<socd, rdr, rv, epoc, ind, trVars, fxVars, rnxVars, contVars>>

NextLeb == Uleb128 \/ Sleb128
SpecLeb == InitLeb /\ [][NextLeb]_vars

\* C15: uleb128 applied to an encoding of k bytes returns the sum over
\* i < k of (byte_i AND 127) shifted left by 7 i, which is the number that
\* was encoded, and leaves the read position on the first byte after the
\* encoding.
C15_Uleb128 ==
    leb.state \notin {"idle", "none", "sleb"} =>
        /\ leb.state = "uleb"
        /\ leb.val = UlebValue(leb.enc)
        /\ leb.val = leb.u
        /\ leb.d = Len(leb.enc)

\* C16: sleb128 applied to the ULEB128 encoding of the ZigZag image of a
\* signed 64-bit v returns v; the unsigned values 0, 1, 2, 3 decode to
\* 0, -1, 1, -2.
C16_Sleb128 ==
    leb.state \notin {"idle", "none", "uleb"} =>
        /\ leb.state = "sleb"
        /\ leb.val = leb.v

\* C19: once a read() on a reader has returned an error, no later read()
\* on the same reader returns RINEX_SUCCESS.  hist.failed tells that a call
\* before the last one returned an error.
C19_ErrorIsFinal ==
    (hist.calls > 0 /\ hist.failed /\ hist.outcome = "returned") => ret # RINEX_SUCCESS

(***************************************************************************)
(* Specification SpecOpen: rinex_open on a stream positioned at the start  *)
(* of a file whose header has four lines, each ended by LF, CRLF or CR.    *)
(* recs describes the header: its lines without terminators.  After the    *)
(* call buffer holds the characters of the header copy.                    *)
(***************************************************************************)
Terminators == {"LF", "CRLF", "CR"}
Terminator(t) == CASE t = "LF" -> <<NL>> [] t = "CRLF" -> <<CR, NL>> [] t = "CR" -> <<CR>>
OpenNObs == {4, 14}
OpenPads == {0, 1}
\* n right-justified in w columns, n < 100.
NField(n, w) ==
    IF n < 10 THEN Rep(" ", w - 1) \o <<CHOOSE d \in Digits : Ord(d) - 48 = n>>
    ELSE Rep(" ", w - 2) \o <<CHOOSE d \in Digits : Ord(d) - 48 = n \div 10,
                               CHOOSE d \in Digits : Ord(d) - 48 = n % 10>>
VersionLine(v) ==
    (IF v = 2 THEN Version2 ELSE Version3) \o <<"1", "1">> \o Rep(" ", 11) \o <<"O">>
        \o Rep(" ", 19) \o <<"G">> \o Rep(" ", 19) \o VersionLabel
TypesLine(v, n, pad) ==
    IF v = 2 THEN NField(n, 6) \o Rep(" ", 54) \o n_obs_label \o Rep(" ", pad)
    ELSE <<"G">> \o Rep(" ", 2) \o NField(n, 3) \o Rep(" ", 54) \o sys_n_obs
             \o Rep(" ", pad)
CommentLine(pad) == <<"X">> \o Rep(" ", 60 + pad)
EndLine(pad) == Rep(" ", 60) \o end_of_header \o Rep(" ", 7 * pad)
TrailingData == Rep("X", 10) \o <<NL>>

InitOpen ==
    /\ TrIdle /\ FxIdle /\ SocdIdle /\ ContIdle
    /\ \E v \in {2, 3} : \E n \in OpenNObs : \E pad \in OpenPads :
       \E t \in [1 .. 4 -> Terminators] : \E tail \in BOOLEAN :
          /\ recs = <<VersionLine(v), TypesLine(v, n, pad), CommentLine(pad),
                      EndLine(pad)>>
          /\ file = recs[1] \o Terminator(t[1]) \o recs[2] \o Terminator(t[2])
                        \o recs[3] \o Terminator(t[3]) \o recs[4] \o Terminator(t[4])
                        \o (IF tail THEN TrailingData ELSE <<>>)
    /\ stream = [start |-> 0, size |-> 0]
    /\ version = 0 /\ n_obs = <<>> /\ parse_ofs = 0 /\ epoch = <<>>
    /\ buffer = <<>> /\ buffer_len = 0 /\ buffer_alloc = 0 /\ obs_alloc = 0
    /\ obs = <<>> /\ lli = <<>> /\ ssi = <<>>
    /\ ret = 1
    /\ hist = [opened |-> "closed", err |-> ""]

OpenStored(adv, o) ==
    /\ stream' = adv.st
    /\ version' = o.version
    /\ n_obs' = o.n_obs
    /\ parse_ofs' = o.parse_ofs
    /\ buffer' = o.buffer
    /\ buffer_len' = o.buffer_len
    /\ buffer_alloc' = o.buffer_alloc
    /\ obs_alloc' = o.obs_alloc
    /\ hist' = [opened |-> o.opened, err |-> o.err]
OpenCall(adv) == OpenStored(adv, rinex_open(adv))
Open ==
    /\ hist.opened = "closed"
    /\ OpenCall(rinex_stdio_advance(stream, BLOCK_SIZE, 0))
    /\ UNCHANGED <<file, recs, epoch, obs, lli, ssi, ret, trVars, fxVars, socdVars, contVars>>

NextOpen == Open
SpecOpen == InitOpen /\ [][NextOpen]_vars

\* The header as rnx_copy_header's contract describes its output: each
\* line without its trailing spaces, followed by a single '\n'.
RECURSIVE ExpectedHeader(_)
ExpectedHeader(lines) ==
    IF lines = <<>> THEN <<>>
    ELSE Trimmed(Head(lines)) \o <<NL>> \o ExpectedHeader(Tail(lines))

\* C20: after a successful open the stored header copy has every line
\* terminator of the input header (CR, LF or CRLF) replaced by a single LF
\* and no space immediately before any LF.
C20_HeaderNormalised ==
    hist.opened = "ok" =>
        /\ buffer_len = Len(ExpectedHeader(recs))
        /\ SubSeq(buffer, 1, buffer_len) = ExpectedHeader(recs)
        /\ \A k \in 1 .. buffer_len : buffer[k] # CR
        /\ \A k \in 2 .. buffer_len : buffer[k] = NL => buffer[k - 1] # " "

(***************************************************************************)
(* srnx.c: srnx_open and srnx_parse_rhdr.  socd.data is the mapping that   *)
(* rnx_mmap_padded returns: the file's bytes followed by RINEX_EXTRA zero  *)
(* bytes.  srnx holds the srnx_reader fields; munmaps counts the munmap    *)
(* calls made on the mapping of the last srnx_open.                        *)
(***************************************************************************)
RINEX_EXTRA == 80
INT_MAX == 2147483647
TagSRNX == <<83, 82, 78, 88>>
TagRHDR == <<82, 72, 68, 82>>
TagSDIR == <<83, 68, 73, 82>>
TagEPOC == <<69, 80, 79, 67>>
TagEVTF == <<69, 86, 84, 70>>
TagSATE == <<83, 65, 84, 69>>
TagSOCD == <<83, 79, 67, 68>>

\* The character a byte stands for, for the bytes the header parsers test.
Chr(b) ==
    CASE b = 10 -> "\n" [] b = 32 -> " " [] b = 35 -> "#" [] b = 46 -> "."
      [] b = 47 -> "/" [] b = 48 -> "0" [] b = 49 -> "1" [] b = 50 -> "2"
      [] b = 51 -> "3" [] b = 52 -> "4" [] b = 53 -> "5" [] b = 54 -> "6"
      [] b = 55 -> "7" [] b = 56 -> "8" [] b = 57 -> "9" [] b = 65 -> "A"
      [] b = 66 -> "B" [] b = 67 -> "C" [] b = 68 -> "D" [] b = 69 -> "E"
      [] b = 70 -> "F" [] b = 71 -> "G" [] b = 72 -> "H" [] b = 73 -> "I"
      [] b = 76 -> "L" [] b = 77 -> "M" [] b = 78 -> "N" [] b = 79 -> "O"
      [] b = 80 -> "P" [] b = 82 -> "R" [] b = 83 -> "S" [] b = 84 -> "T"
      [] b = 86 -> "V" [] b = 88 -> "X" [] b = 89 -> "Y" [] OTHER -> "?"

\* rhdr[0 .. rhdr_len) as characters, rhdr at offset r of the mapping.
RhdrText(r, rhdr_len) == [k \in 1 .. rhdr_len |-> Chr(DByte(r + k - 1))]
\* memcpy(name, line + o, n) followed by NULs up to four bytes.
CodeName(r, o, n) == [k \in 1 .. 4 |-> IF k <= n THEN DByte(r + o + k - 1) ELSE 0]

\* The outcome of srnx_parse_rhdr: [ret, sys_idx, codes, ub], codes[kk]
\* being the names in sys_info[kk].
NoSystems == [i \in 0 .. 31 |-> 0]
RhdrResult(code, idx, codes) == [ret |-> code, sys_idx |-> idx, codes |-> codes, ub |-> FALSE]
RhdrUndefined == [ret |-> 0, sys_idx |-> NoSystems, codes |-> <<>>, ub |-> TRUE]

\* srnx_parse_rhdr_v2: the loop over the n code names from line, ii loaded
\* so far, jj of them on this line.
RECURSIVE RhdrV2Codes(_, _, _, _, _, _, _, _)
RhdrV2NextLine(r, t, idx, line, ii, n, acc, eol) ==
    IF eol < 0 \/ eol >= Len(t) \/ ~Matches(t, eol + 61, n_obs_label)
    THEN RhdrResult(SRNX_CORRUPT, idx, <<acc>>)
    ELSE RhdrV2Codes(r, t, idx, eol + 1, ii + 1, 0, n, acc)
RhdrV2Codes(r, t, idx, line, ii, jj, n, acc) ==
    IF ii >= n THEN RhdrResult(0, idx, <<acc>>)
    ELSE IF jj = 8 /\ ii + 1 < n
    THEN RhdrV2NextLine(r, t, idx, line, ii, n,
                        Append(acc, CodeName(r, line + 10 + jj * 6, 2)),
                        IndexFrom(t, line, NL))
    ELSE RhdrV2Codes(r, t, idx, line, ii + 1, jj + 1, n,
                     Append(acc, CodeName(r, line + 10 + jj * 6, 2)))
RhdrV2Count(r, t, idx, line, u) ==
    IF u.err # "ok" THEN RhdrResult(22, idx, <<>>)
    ELSE RhdrV2Codes(r, t, idx, line, 0, 0, u.value, <<>>)
RhdrV2Line(r, t, idx, f) ==
    IF f.ub THEN RhdrUndefined
    ELSE IF f.res < 0 THEN RhdrResult(SRNX_CORRUPT, idx, <<>>)
    ELSE RhdrV2Count(r, t, idx, f.res, TextUint(t, f.res, 6))
RhdrV2Systems(obs_type) ==
    [i \in 0 .. 31 |->
        IF obs_type = "M" THEN (IF i \in {0, 5, 7, 18, 19} THEN 1 ELSE 0)
        ELSE IF obs_type = " " THEN (IF i \in {0, 7} THEN 1 ELSE 0)
        ELSE IF i = SysIndex(obs_type) THEN 1 ELSE 0]
srnx_parse_rhdr_v2(r, t) ==
    IF TAt(t, 40) \notin {" ", "G", "R", "S", "E", "M"}
    THEN RhdrResult(SRNX_CORRUPT, NoSystems, <<>>)
    ELSE RhdrV2Line(r, t, RhdrV2Systems(TAt(t, 40)),
                    rnx_find_header(t, Len(t), n_obs_label))

\* srnx_parse_rhdr_v3: the for loop over kk.  The loop body never moves
\* line past the last line of a system, and kk is stepped both by the body
\* and by the loop, so the same line is parsed again into sys_info[kk + 2]
\* until kk leaves sys_info[33].
RECURSIVE RhdrV3Systems(_, _, _, _)
RhdrV3Count(r, t, line, kk, u) ==
    IF u.err # "ok" \/ u.value < 1 THEN RhdrResult(SRNX_CORRUPT, NoSystems, <<>>)
    \* more than 13 codes: line ends on a successor line, whose columns
    \* 3..5 are blank and parse as the count 0
    ELSE IF u.value > 13 THEN RhdrResult(SRNX_CORRUPT, NoSystems, <<>>)
    ELSE RhdrV3Systems(r, t, line, kk + 2)
RhdrV3Systems(r, t, line, kk) ==
    IF ~Matches(t, line + 60, sys_n_obs) THEN RhdrResult(0, NoSystems, <<>>)
    ELSE IF kk > 32 THEN RhdrUndefined
    ELSE RhdrV3Count(r, t, line, kk, TextUint(t, line + 3, 3))
RhdrV3Line(r, t, f) ==
    IF f.ub THEN RhdrUndefined
    ELSE IF f.res < 0 THEN RhdrResult(SRNX_CORRUPT, NoSystems, <<>>)
    ELSE RhdrV3Systems(r, t, f.res, 1)
srnx_parse_rhdr_v3(r, t) == RhdrV3Line(r, t, rnx_find_header(t, Len(t), sys_n_obs))

srnx_parse_rhdr(r, t) ==
    IF ~Matches(t, 60, VersionLabel) THEN RhdrResult(SRNX_CORRUPT, NoSystems, <<>>)
    ELSE IF Matches(t, 0, Version2) THEN srnx_parse_rhdr_v2(r, t)
    ELSE IF Matches(t, 0, Version3) THEN srnx_parse_rhdr_v3(r, t)
    ELSE RhdrResult(SRNX_BAD_MAJOR, NoSystems, <<>>)

\* The reader after "memset(*p_srnx, 0, ...)" or calloc and the three
\* offsets set to -1.
ClosedReader ==
    [state |-> "closed", ret |-> 0, data |-> FALSE, data_size |-> 0, data_mapped |-> 0,
     chunk_digest |-> 0, rhdr_offset |-> 0, next_offset |-> 0, sdir_offset |-> -1,
     epoc_offset |-> -1, evtf_offset |-> -1, sys_idx |-> NoSystems, codes |-> <<>>,
     munmaps |-> 0]
\* A failing return after the mmap, having called munmap n times.
OpenFailure(rd, code, n) == [rd EXCEPT !.state = "failed", !.ret = code, !.munmaps = n]
OpenCorrupt(rd) == OpenFailure(rd, SRNX_CORRUPT, 1)
OpenOutside(rd) == [rd EXCEPT !.state = "undefined"]
\* A uleb128 result as a number, for the results that pass "ul > INT_MAX"
\* (the words IsSmall holds of).
Num(u) == IF IsSmall(u.val) THEN WordNat(u.val) ELSE INT_MAX

\* srnx_open from "Check that first chunk is SRNX" on, file_size being
\* sbuf.st_size, in the order of the code.
OpenParsed(rd, file_size, rptr, payload_len, h) ==
    IF h.ub THEN OpenOutside(rd)
    ELSE IF h.ret # 0
    THEN OpenCorrupt([rd EXCEPT !.sys_idx = h.sys_idx, !.codes = h.codes])
    ELSE [rd EXCEPT !.state = "open", !.ret = 0, !.data = TRUE, !.data_size = file_size,
                    !.data_mapped = Len(socd.data), !.sys_idx = h.sys_idx,
                    !.codes = h.codes,
                    !.next_offset = rptr + payload_len
                                        + srnx_digest_length(rd.chunk_digest)]
OpenRhdrLength(rd, file_size, u) ==
    IF u.ub THEN OpenOutside(rd)
    ELSE IF ~IsSmall(u.val) \/ u.d + Num(u) > file_size THEN OpenCorrupt(rd)
    ELSE OpenParsed(rd, file_size, u.d, Num(u),
                    srnx_parse_rhdr(u.d, RhdrText(u.d, Num(u))))
OpenRhdr(rd, file_size, chunk) ==
    IF ~TagAt(chunk, TagRHDR) THEN OpenCorrupt(rd)
    ELSE OpenRhdrLength([rd EXCEPT !.rhdr_offset = chunk], file_size, uleb128(chunk + 4))
OpenFileDigest(rd, file_size, payload_start, payload_len, u) ==
    IF u.ub THEN OpenOutside(rd)
    ELSE IF ~IsSmall(u.val) THEN OpenCorrupt(rd)
    ELSE IF u.d + srnx_digest_length(Num(u)) + srnx_digest_length(rd.chunk_digest)
                > file_size
    THEN OpenCorrupt(rd)
    ELSE IF u.d - payload_start > payload_len THEN OpenCorrupt(rd)
    ELSE OpenRhdr(rd,
                  file_size - srnx_digest_length(Num(u))
                      - srnx_digest_length(rd.chunk_digest),
                  payload_start + payload_len + srnx_digest_length(rd.chunk_digest))
OpenChunkDigest(rd, file_size, payload_start, payload_len, u) ==
    IF u.ub THEN OpenOutside(rd)
    ELSE IF ~IsSmall(u.val) THEN OpenCorrupt(rd)
    ELSE OpenFileDigest([rd EXCEPT !.chunk_digest = Num(u)], file_size, payload_start,
                        payload_len, uleb128(u.d))
OpenMinor(rd, file_size, payload_start, payload_len, u) ==
    IF u.ub THEN OpenOutside(rd)
    ELSE IF ~IsSmall(u.val) THEN OpenCorrupt(rd)
    ELSE OpenChunkDigest(rd, file_size, payload_start, payload_len, uleb128(u.d))
\* "munmap(addr, tot_len); res = SRNX_BAD_MAJOR; goto late_failure;" and
\* late_failure calls munmap again.
OpenMajor(rd, file_size, payload_start, payload_len, u) ==
    IF u.ub THEN OpenOutside(rd)
    ELSE IF u.val # U64OfByte(1) THEN OpenFailure(rd, SRNX_BAD_MAJOR, 2)
    ELSE OpenMinor(rd, file_size, payload_start, payload_len, uleb128(u.d))
OpenSrnxLength(rd, file_size, u) ==
    IF u.ub THEN OpenOutside(rd)
    ELSE IF ~IsSmall(u.val) \/ u.d + Num(u) >= file_size THEN OpenCorrupt(rd)
    ELSE OpenMajor(rd, file_size, u.d, Num(u), uleb128(u.d))
srnx_open(file_size) ==
    IF ~TagAt(0, TagSRNX) THEN OpenFailure(ClosedReader, SRNX_NOT_SRNX, 1)
    ELSE OpenSrnxLength(ClosedReader, file_size, uleb128(4))

(***************************************************************************)
(* srnx.c: srnx_get_satellites with *p_name = NULL.  The result is [ret,   *)
(* len, names, sdir_offset, epoc_offset, evtf_offset, ub]: len is the       *)
(* caller's *p_names_len and names the entries of *p_name written to.      *)
(* "*p_names_len++" reads the count and steps the pointer p_names_len, not *)
(* the count: the first name goes to entry 0 and the count stays 0, and    *)
(* a second name is placed by a count read from behind the caller's        *)
(* variable.                                                               *)
(***************************************************************************)
SatsResult(code, names, rd) ==
    [ret |-> code, len |-> 0, names |-> names, sdir_offset |-> rd.sdir_offset,
     epoc_offset |-> rd.epoc_offset, evtf_offset |-> rd.evtf_offset, ub |-> FALSE]
SatsUndefined(rd) == [SatsResult(0, <<>>, rd) EXCEPT !.ub = TRUE]
Bytes(o, n) == [k \in 1 .. n |-> DByte(o + k - 1)]

\* "No satellite directory; must scan SATE chunks": k names stored so far.
RECURSIVE SateScan(_, _, _, _)
SateFound(rd, k, names, c) ==
    IF c.ub THEN SatsUndefined(rd)
    ELSE IF c.ret # 0 THEN SatsResult(0, names, rd)
    ELSE IF c.len < 4 THEN SatsResult(SRNX_CORRUPT, names, rd)
    ELSE IF k >= 1 THEN SatsUndefined(rd)
    ELSE SateScan(rd, c.next, k + 1, <<Bytes(c.payload, 4)>>)
SateScan(rd, whence, k, names) == SateFound(rd, k, names, srnx_find_chunk(TagSATE, whence))

\* The loop over the directory entries, rptr at offset p.
RECURSIVE DirNames(_, _, _, _, _)
DirSkipped(rd, end, k, names, u) ==
    IF u.ub THEN SatsUndefined(rd)
    ELSE IF u.d > end THEN SatsResult(SRNX_CORRUPT, names, rd)
    ELSE DirNames(rd, u.d, end, k + 1, names)
DirNames(rd, p, end, k, names) ==
    IF p + 4 >= end THEN SatsResult(0, names, rd)
    ELSE IF k >= 1 THEN SatsUndefined(rd)
    ELSE DirSkipped(rd, end, k, <<Bytes(p, 3) \o <<0>>>>, uleb128(p + 3))
DirEvtf(rd, end, u) ==
    IF u.ub \/ ~IsSmall(u.val) THEN SatsUndefined(rd)
    ELSE IF u.d > end THEN SatsResult(SRNX_CORRUPT, <<>>, [rd EXCEPT !.evtf_offset = Num(u)])
    ELSE DirNames([rd EXCEPT !.evtf_offset = Num(u)], u.d, end, 0, <<>>)
DirEpoc(rd, end, u) ==
    IF u.ub \/ ~IsSmall(u.val) THEN SatsUndefined(rd)
    ELSE DirEvtf([rd EXCEPT !.epoc_offset = Num(u)], end, uleb128(u.d))
SatsDirectory(rd, c) ==
    IF c.ub THEN SatsUndefined(rd)
    ELSE IF c.ret = 0
    THEN DirEpoc([rd EXCEPT !.sdir_offset = c.start], c.payload + c.len, uleb128(c.payload))
    ELSE SateScan(rd, rd.next_offset, 0, <<>>)
srnx_get_satellites(rd) ==
    SatsDirectory(rd, srnx_find_chunk_cached(TagSDIR, rd.sdir_offset))

(***************************************************************************)
(* srnx_find_sate, srnx_find_socd and srnx_open_obs_by_index on the reader *)
(* srnx.                                                                   *)
(***************************************************************************)
\* What a lookup returned (an offset or a negative srnx_errno), or that it
\* never returns, or that it did something undefined.
Located(code) == [ret |-> code, state |-> "returned"]
LookupHung == [ret |-> 0, state |-> "hang"]
LookupUndefined == [ret |-> 0, state |-> "undefined"]

\* "Does the SATE payload start with this satellite name?": next is the
\* payload length read at u64 + 4.
SateNamed(name, u64, next) ==
    IF next.ub THEN LookupUndefined
    ELSE IF (IsSmall(next.val) /\ WordNat(next.val) < 4) \/ Bytes(next.d, 4) # name
    THEN Located(SRNX_CORRUPT)
    ELSE Located(u64)
\* "Is the offset too large, or not pointing to a SATE?"
SateEntry(name, u) ==
    IF ~IsSmall(u.val) \/ WordNat(u.val) + 9 >= data_size THEN Located(SRNX_CORRUPT)
    ELSE IF ~TagAt(WordNat(u.val), TagSATE) THEN Located(SRNX_CORRUPT)
    ELSE SateNamed(name, WordNat(u.val), uleb128(WordNat(u.val) + 4))
\* "Scan through the satellite directory": rptr at offset p, u the value
\* uleb128(&rptr) reads there.  A value of one byte leaves rptr where it
\* was, and the loop then repeats the same pass for ever.
RECURSIVE SateDirectory(_, _, _)
SateDirectoryEntry(name, p, payload, u) ==
    IF u.ub THEN LookupUndefined
    ELSE IF Bytes(p, 4) = name THEN SateEntry(name, u)
    ELSE IF u.d = p THEN LookupHung
    ELSE SateDirectory(name, u.d, payload)
SateDirectory(name, p, payload) ==
    IF p >= payload THEN Located(SRNX_UNKNOWN_SATELLITE)
    ELSE SateDirectoryEntry(name, p, payload, uleb128(p))
\* "Skip the EPOC and EVTF chunk offsets."
SateDirectorySkip(name, payload, e1) ==
    IF e1.ub \/ uleb128(e1.d).ub THEN LookupUndefined
    ELSE SateDirectory(name, uleb128(e1.d).d, payload)
\* "Read payload length": u read at sdir_offset + 4.
SateDirectoryLength(name, u) ==
    IF u.ub THEN LookupUndefined
    ELSE IF ~IsSmall(u.val) \/ srnx.sdir_offset + WordNat(u.val) > data_size
    THEN Located(SRNX_CORRUPT)
    ELSE SateDirectorySkip(name, srnx.sdir_offset + 4 + WordNat(u.val), uleb128(u.d))
\* "Scan through SATE chunks to find the right one": a match returns
\* whence, the offset the search for the chunk started from.
RECURSIVE SateForward(_, _)
SateChunk(name, whence, c) ==
    IF c.ub THEN LookupUndefined
    ELSE IF c.ret < 0 THEN Located(c.ret)
    ELSE IF c.len < 4 THEN Located(SRNX_CORRUPT)
    ELSE IF Bytes(c.payload, 4) = name THEN Located(whence)
    ELSE SateForward(name, c.next)
SateForward(name, whence) ==
    IF whence >= data_size THEN Located(SRNX_UNKNOWN_SATELLITE)
    ELSE SateChunk(name, whence, srnx_find_chunk(TagSATE, whence))
\* srnx_find_sate(srnx, name): "if (srnx->sdir_offset)" takes the directory
\* branch for every offset but 0, the -1 of a new reader included.
srnx_find_sate(name) ==
    IF srnx.sdir_offset # 0 THEN SateDirectoryLength(name, uleb128(srnx.sdir_offset + 4))
    ELSE SateForward(name, srnx.next_offset)

\* "Validate SOCD block is for the expected SV and observation": payload
\* is still on the tag at s64 when it is compared with the names.
SocdValidated(name, code, s64) ==
    IF s64 < 0 \/ s64 + 8 > Len(socd.data) THEN LookupUndefined
    ELSE IF ~TagAt(s64, TagSOCD) \/ DByte(s64) < 8 \/ Bytes(s64, 4) # name
                \/ Bytes(s64 + 4, 4) # code
    THEN Located(SRNX_CORRUPT)
    ELSE Located(s64)
\* "Search for the desired code": sleb128(&rptr) for the ii'th code (from
\* 0) of names, rptr at offset p.
RECURSIVE SocdSearch(_, _, _, _, _, _)
SocdOffset(name, code, sate_offset, names, ii, s) ==
    IF s.ub \/ ~(IsSmall(s.val) \/ IsSmall(Neg64(s.val))) THEN LookupUndefined
    ELSE IF names[ii + 1] # code THEN SocdSearch(name, code, sate_offset, names, ii + 1, s.d)
    ELSE IF s.val = U64Zero THEN Located(SRNX_UNKNOWN_CODE)
    ELSE SocdValidated(name, code,
                       sate_offset + (IF IsSmall(s.val) THEN WordNat(s.val)
                                      ELSE -WordNat(Neg64(s.val))))
SocdSearch(name, code, sate_offset, names, ii, p) ==
    IF ii >= Len(names) THEN Located(SRNX_UNKNOWN_CODE)
    ELSE SocdOffset(name, code, sate_offset, names, ii, sleb128(p))
\* After srnx_find_sate (f): u is the SATE payload length.
SocdInSate(name, code, f, u) ==
    IF u.ub THEN LookupUndefined
    ELSE IF srnx.sys_idx[name[1] % 32] = 0 THEN Located(SRNX_UNKNOWN_SYSTEM)
    ELSE SocdSearch(name, code, f.ret, srnx.codes[srnx.sys_idx[name[1] % 32]], 0, u.d + 4)
\* The outcome x, with what srnx_find_sate returned.
SocdWithSate(f, x) == [ret |-> x.ret, state |-> x.state, sate |-> f]
SocdOfSate(name, code, f) ==
    IF f.state # "returned" \/ f.ret < 0 THEN SocdWithSate(f, f)
    ELSE SocdWithSate(f, SocdInSate(name, code, f, uleb128(f.ret + 4)))
srnx_find_socd(name, code) == SocdOfSate(name, code, srnx_find_sate(name))

\* srnx_open_obs_by_index(srnx, name, obs_idx, &p_rdr) with *p_rdr NULL:
\* [ret, state, rdr, sate], rdr the reader it allocates and sate what its
\* srnx_find_sate returned.
NoLookup == [ret |-> 0, state |-> "none"]
ObsOpenDone(f, r) ==
    [ret |-> IF r.state = "failed" THEN r.err ELSE 0,
     state |-> IF r.state = "undefined" THEN "undefined" ELSE "returned", rdr |-> r,
     sate |-> f.sate]
ObsOpenFound(f) ==
    IF f.state # "returned" THEN [ret |-> 0, state |-> f.state, rdr |-> rdr, sate |-> f.sate]
    ELSE IF f.ret < 0 THEN [ret |-> f.ret, state |-> "returned", rdr |-> rdr, sate |-> f.sate]
    ELSE ObsOpenDone(f, OpenPayload(uleb128(f.ret + 4)))
ObsOpenByIndex(name, obs_idx) ==
    IF srnx.sys_idx[name[1] % 32] = 0
    THEN [ret |-> SRNX_UNKNOWN_SYSTEM, state |-> "returned", rdr |-> rdr, sate |-> NoLookup]
    ELSE IF obs_idx < 0 \/ obs_idx >= Len(srnx.codes[srnx.sys_idx[name[1] % 32]])
    THEN [ret |-> SRNX_UNKNOWN_CODE, state |-> "returned", rdr |-> rdr, sate |-> NoLookup]
    ELSE ObsOpenFound(srnx_find_socd(name,
                          srnx.codes[srnx.sys_idx[name[1] % 32]][obs_idx + 1]))

(***************************************************************************)
(* Container files.  A well-formed file follows Succinct_RINEX.md with the *)
(* null digest.  srnx_open accepts no such file: it takes the major        *)
(* version, the minor version and both digest identifiers from the last    *)
(* byte of the SRNX length, and the RINEX version from the last byte of    *)
(* the RHDR length on.  An accepted file has the SRNX length 1 (hence      *)
(* digest identifier 1, two digest bytes), and an RHDR length whose last   *)
(* byte is the first space of the header, 0x80 0x20, which srnx_open reads *)
(* as 4096.  In an accepted file a chunk is laid out as the lookups read   *)
(* it: the payload starts on the length byte.                              *)
(***************************************************************************)
Asc(c) == CHOOSE b \in 0 .. 127 : Chr(b) = c
AscText(t) == [k \in 1 .. Len(t) |-> Asc(t[k])]
\* "     2.11 ... G ... RINEX VERSION / TYPE", two codes L1 and C1, and the
\* end of the header.
CodesLine ==
    NField(2, 6) \o Rep(" ", 4) \o <<"L", "1">> \o Rep(" ", 4) \o <<"C", "1">>
        \o Rep(" ", 42) \o n_obs_label
RhdrBytes ==
    AscText(VersionLine(2) \o <<NL>> \o CodesLine \o <<NL>> \o EndLine(0) \o <<NL>>)
AcceptedRhdrLength == 4096
AcceptedPrefix ==
    TagSRNX \o <<1, 0, 0>> \o TagRHDR \o <<128>> \o RhdrBytes
        \o Zeros(AcceptedRhdrLength - Len(RhdrBytes) + 2)
WellFormedPrefix == TagSRNX \o Sized(<<1, 0, 0, 0, 0>>) \o TagRHDR \o Sized(RhdrBytes)

\* Satellite names, as the four bytes of struct srnx_satellite_name.
SatG01 == <<71, 48, 49, 0>>
SatR02 == <<82, 48, 50, 0>>
SatE05 == <<69, 48, 53, 0>>
\* A chunk of an accepted file whose payload, read from the length byte on,
\* is body.
AcceptedChunk(tag, body) == tag \o body \o <<0, 0>>
\* SATE: the name, then the signal offsets (none present).
AcceptedSate(name) == AcceptedChunk(TagSATE, name \o Zeros(name[1] - 4))
\* The name with its NUL, two absent signals, and one run of presence.
WellFormedSate(name) == TagSATE \o Sized(name \o <<0, 0>> \o <<0, 0, 0>>)
RECURSIVE Sates(_, _)
Sates(names, accepted) ==
    IF names = <<>> THEN <<>>
    ELSE (IF accepted THEN AcceptedSate(Head(names)) ELSE WellFormedSate(Head(names)))
             \o Sates(Tail(names), accepted)

\* SDIR.  Well-formed: the EPOC and EVTF offsets (none), then each name
\* with the offset of its SATE chunk, 18 bytes apart from offset first.
\* Accepted: a payload of seven bytes, which srnx_get_satellites reads as
\* one entry.
RECURSIVE SdirEntries(_, _)
SdirEntries(names, first) ==
    IF names = <<>> THEN <<>>
    ELSE SubSeq(Head(names), 1, 3) \o EncUleb(first) \o SdirEntries(Tail(names), first + 18)
WellFormedSdir(names, first) == TagSDIR \o Sized(<<0, 0>> \o SdirEntries(names, first))
AcceptedSdir == AcceptedChunk(TagSDIR, <<7, 48, 49, 0, 0, 0, 0>>)

SatG02 == <<71, 48, 50, 0>>
\* EPOC and EVTF.  Well-formed: two epochs 30 s apart from 2020-01-01
\* 12:00:00, and one event at epoch 1 with the text "E".  Accepted: a
\* payload of two bytes, read by srnx_get_epochs as two epochs and by
\* srnx_next_special_event as an event at epoch 2.
WellFormedEpoc ==
    TagEPOC \o Sized(<<2>> \o EncSpan([iv |-> 300000000, whole |-> FALSE, count |-> 2,
                                       date |-> 20200101, hh_mm |-> 1200, sec |-> 0]))
WellFormedEvtf == TagEVTF \o Sized(<<1, 69>>)
AcceptedEpoc == AcceptedChunk(TagEPOC, <<2, 0>>)
AcceptedEvtf == AcceptedChunk(TagEVTF, <<2, 69>>)

ContSats == { <<>>, <<SatG01>>, <<SatG01, SatR02>> }
\* The file of a description f = [accepted, sats, sdir, tail], tail telling
\* whether an EVTF and an EPOC chunk follow.
ContFile(f) ==
    IF f.accepted
    THEN AcceptedPrefix \o Sates(f.sats, TRUE) \o (IF f.sdir THEN AcceptedSdir ELSE <<>>)
             \o (IF f.tail THEN AcceptedEvtf \o AcceptedEpoc ELSE <<>>)
             \o <<0, 0>>
    ELSE WellFormedPrefix \o Sates(f.sats, FALSE)
             \o (IF f.sdir THEN WellFormedSdir(f.sats, Len(WellFormedPrefix)) ELSE <<>>)
             \o (IF f.tail THEN WellFormedEvtf \o WellFormedEpoc ELSE <<>>)

(***************************************************************************)
(* Specification SpecCont: srnx_open on one file, then lookups on the      *)
(* reader.  api.calls records each call and what it returned.              *)
(***************************************************************************)
MaxCalls == 3
MaxOpens == 2
InitCont ==
    /\ TrIdle /\ FxIdle /\ RnxIdle
    /\ rdr = [state |-> "none", err |-> 0, obs_valid |-> 0, obs_idx |-> 0,
              block_code |-> 0, block_left |-> 0, n_values |-> {}, lli_offset |-> 0,
              data_offset |-> 0, data_end |-> 0, obs |-> <<>>]
    /\ rv = <<>>
    /\ epoc = [spans |-> <<>>, wf |-> FALSE, state |-> "none", ret |-> 0, list |-> <<>>]
    /\ ind = [rle |-> <<>>, n |-> 0, wf |-> FALSE, state |-> "none", ret |-> 0,
              n_values |-> 0, lli |-> <<>>, ssi |-> <<>>]
    /\ leb = [v |-> {}, u |-> {}, enc |-> <<>>, state |-> "idle", val |-> {}, d |-> 0]
    /\ \E f \in [accepted : BOOLEAN, sats : ContSats, sdir : BOOLEAN, tail : BOOLEAN] :
          /\ api = [accepted |-> f.accepted, sats |-> f.sats, sdir |-> f.sdir,
                    tail |-> f.tail, file_size |-> Len(ContFile(f)), calls |-> <<>>]
          /\ socd = [data |-> ContFile(f) \o Zeros(RINEX_EXTRA),
                     values |-> <<>>, wf |-> ~f.accepted,
                     coding |-> [order |-> 0, scale |-> 0, init |-> <<>>, resid |-> <<>>]]
    /\ srnx = ClosedReader

Called(op) == Cardinality({i \in 1 .. Len(api.calls) : api.calls[i].op = op})
CanCall == srnx.state \in {"closed", "open", "failed"} /\ Len(api.calls) < MaxCalls

\* srnx_open(&srnx, filename): the old mapping, if the reader holds one, is
\* unmapped first (released counts those calls); munmaps counts the calls
\* of munmap on the new mapping, and data tells whether the reader is left
\* with a pointer to it.
SrnxOpened(rd) ==
    /\ srnx' = rd
    /\ api' = [api EXCEPT !.calls = Append(@, [op |-> "open", ret |-> rd.ret,
                                               state |-> rd.state,
                                               munmaps |-> rd.munmaps,
                                               data |-> rd.data,
                                               released |-> IF srnx.data THEN 1 ELSE 0])]
SrnxOpen ==
    /\ CanCall /\ Called("open") < MaxOpens
    /\ SrnxOpened(srnx_open(api.file_size))
    /\ UNCHANGED <<socdVars, trVars, fxVars, rnxVars>>

\* srnx_get_satellites(srnx, &names, &len) with names = NULL.
GotSatellites(r) ==
    /\ srnx' = [srnx EXCEPT !.state = IF r.ub THEN "undefined" ELSE @,
                            !.sdir_offset = r.sdir_offset,
                            !.epoc_offset = r.epoc_offset,
                            !.evtf_offset = r.evtf_offset]
    /\ api' = [api EXCEPT !.calls = Append(@, [op |-> "sats", ret |-> r.ret,
                                               len |-> r.len, names |-> r.names,
                                               ub |-> r.ub])]
GetSatellites ==
    /\ CanCall /\ srnx.state = "open"
    /\ GotSatellites(srnx_get_satellites(srnx))
    /\ UNCHANGED <<socdVars, trVars, fxVars, rnxVars>>

\* srnx_open_obs_by_index(srnx, name, 0, &p_rdr).  fresh: no call since
\* srnx_open has stored a chunk offset in the reader.
ObsNames == {SatG01, SatG02, SatR02}
OpenedObservation(name, r) ==
    /\ srnx' = [srnx EXCEPT !.state = IF r.state = "returned" THEN @ ELSE r.state]
    /\ rdr' = r.rdr
    /\ api' = [api EXCEPT !.calls = Append(@, [op |-> "obs", name |-> name, ret |-> r.ret,
                                               state |-> r.state, sate |-> r.sate,
                                               known |-> srnx.sys_idx[name[1] % 32] # 0,
                                               fresh |-> /\ srnx.sdir_offset = -1
                                                         /\ srnx.epoc_offset = -1
                                                         /\ srnx.evtf_offset = -1])]
OpenObservation ==
    /\ CanCall /\ srnx.state = "open"
    /\ \E name \in ObsNames : OpenedObservation(name, ObsOpenByIndex(name, 0))
    /\ UNCHANGED <<socd, rv, epoc, ind, leb, trVars, fxVars, rnxVars>>

\* srnx_get_epochs(srnx, &epochs, &len) on the reader: c is what its
\* srnx_find_chunk_cached returned, e what the call leaves.
GotEpochs(c, e) ==
    /\ srnx' = [srnx EXCEPT !.state = IF e.state = "done" THEN @ ELSE e.state,
                            !.epoc_offset = c.start]
    /\ epoc' = e
    /\ api' = [api EXCEPT !.calls = Append(@, [op |-> "epochs", ret |-> e.ret,
                                               state |-> e.state, list |-> e.list,
                                               payload |-> c.payload, len |-> c.len])]
FoundEpochs(c) == GotEpochs(c, GotChunk(c))
ReaderEpochs ==
    /\ CanCall /\ srnx.state = "open"
    /\ FoundEpochs(srnx_find_chunk_cached(TagEPOC, srnx.epoc_offset))
    /\ UNCHANGED <<socd, rdr, rv, ind, leb, trVars, fxVars, rnxVars>>

\* srnx_next_special_event(srnx, &event, &len, &index) with event = NULL:
\* [ret, state, epoch_index, event_len, event], event the offset it leaves
\* in *p_event.
EventResult(code) ==
    [ret |-> code, state |-> "returned", epoch_index |-> U64Zero, event_len |-> 0,
     event |-> -1]
EventDecoded(c, u) ==
    IF u.ub THEN [EventResult(0) EXCEPT !.state = "undefined"]
    ELSE IF u.d - c.payload >= c.len
    THEN [EventResult(SRNX_CORRUPT) EXCEPT !.epoch_index = u.val, !.event = u.d]
    ELSE [EventResult(0) EXCEPT !.epoch_index = u.val,
                                !.event_len = c.len - (u.d - c.payload),
                                !.event = c.next]
srnx_next_special_event(c) ==
    IF c.ub THEN [EventResult(0) EXCEPT !.state = "undefined"]
    ELSE IF c.ret # 0 THEN EventResult(c.ret)
    ELSE EventDecoded(c, uleb128(c.payload))
GotEvent(c, e) ==
    /\ srnx' = [srnx EXCEPT !.state = IF e.state = "returned" THEN @ ELSE e.state,
                            !.evtf_offset = c.start]
    /\ api' = [api EXCEPT !.calls = Append(@, [op |-> "event", ret |-> e.ret,
                                               state |-> e.state, list |-> <<e>>,
                                               payload |-> c.payload, len |-> c.len])]
FoundEvent(c) == GotEvent(c, srnx_next_special_event(c))
FirstEvent ==
    /\ CanCall /\ srnx.state = "open"
    /\ FoundEvent(srnx_find_chunk_cached(TagEVTF, srnx.evtf_offset))
    /\ UNCHANGED <<socdVars, trVars, fxVars, rnxVars>>

NextCont == SrnxOpen \/ GetSatellites \/ OpenObservation \/ ReaderEpochs \/ FirstEvent
SpecCont == InitCont /\ [][NextCont]_vars

\* C21: srnx_get_satellites, called with an empty name list on a container
\* that has N SATE chunks, returns 0 with *p_names_len = N and the first N
\* entries of *p_name holding the N satellite names, each once.
C21_SatelliteNames ==
    \A i \in 1 .. Len(api.calls) :
        api.calls[i].op = "sats" =>
            /\ ~api.calls[i].ub
            /\ api.calls[i].ret = 0
            /\ api.calls[i].len = Len(api.sats)
            /\ Len(api.calls[i].names) >= Len(api.sats)
            /\ \A k \in 1 .. Len(api.sats) :
                  Cardinality({j \in 1 .. Len(api.sats) :
                                  api.calls[i].names[j] = api.sats[k]}) = 1

\* The offset of the SATE chunk of name in the file: the chunks follow the
\* prefix in the order of api.sats.
RECURSIVE SateOffset(_, _, _)
SateOffset(names, name, first) ==
    IF names = <<>> THEN -1
    ELSE IF Head(names) = name THEN first
    ELSE SateOffset(Tail(names), name,
                    first + Len(Sates(<<Head(names)>>, api.accepted)))
HasSate(name) == \E k \in 1 .. Len(api.sats) : api.sats[k] = name

\* C23: on a freshly opened container, opening an observation reader for a
\* satellite of a declared system finds the satellite's SATE chunk when
\* the file has one, and fails with SRNX_UNKNOWN_SATELLITE when it has
\* none.
C23_FreshLookup ==
    \A i \in 1 .. Len(api.calls) :
        (api.calls[i].op = "obs" /\ api.calls[i].fresh /\ api.calls[i].known) =>
            /\ api.calls[i].state = "returned"
            /\ IF HasSate(api.calls[i].name)
               THEN api.calls[i].sate
                        = Located(SateOffset(api.sats, api.calls[i].name,
                                             Len(AcceptedPrefix)))
               ELSE api.calls[i].ret = SRNX_UNKNOWN_SATELLITE

\* C27: a lookup that finds the chunk at its cached offset gives the
\* payload start and length the scanning lookup gave, so a second
\* srnx_get_epochs on the reader returns the status and the epochs of the
\* first, and a second srnx_next_special_event with a NULL cursor returns
\* the event of the first.
C27_LookupIdempotent ==
    \A i \in 1 .. Len(api.calls) - 1 :
        (/\ api.calls[i].op \in {"epochs", "event"}
         /\ api.calls[i + 1].op = api.calls[i].op
         /\ api.calls[i].state \in {"done", "returned"}) =>
            api.calls[i + 1] = api.calls[i]

\* The srnx_open calls made before call i.
OpensBefore(i) == {j \in 1 .. i - 1 : api.calls[j].op = "open"}
\* Whether the srnx_open before call i, if there was one, returned 0.
OwnedBefore(i) ==
    \E j \in OpensBefore(i) :
        /\ api.calls[j].ret = 0
        /\ \A k \in OpensBefore(i) : k <= j

\* C30: a srnx_open that fails after mapping the file calls munmap on the
\* mapping exactly once and leaves no pointer to it in the reader; one that
\* succeeds leaves the mapping to the reader, and the next srnx_open on the
\* reader unmaps it exactly once.
C30_MappingReleasedOnce ==
    \A i \in 1 .. Len(api.calls) :
        (api.calls[i].op = "open" /\ api.calls[i].state # "undefined") =>
            /\ api.calls[i].ret # 0 => (api.calls[i].munmaps = 1 /\ ~api.calls[i].data)
            /\ api.calls[i].ret = 0 => (api.calls[i].munmaps = 0 /\ api.calls[i].data)
            /\ api.calls[i].released = IF OwnedBefore(i) THEN 1 ELSE 0

\* C24: for every input, every bits in 1..32 and every count in {8, 16, 32}
\* the implementation selected by transpose_select or TRANSPOSE_FORCE writes
\* the same count output values as transpose_generic, so the selection
\* never changes a decoded result.
C24_SameAsGeneric ==
    tr_out # <<>> =>
        /\ Len(tr_out) = tr_count
        /\ tr_out = transpose_generic([k \in 1 .. tr_count |-> U64Zero],
                                      tr_in, tr_bits, tr_count)

\* C24 witness: the AVX2 implementation has transposed a 32-column matrix of
\* more than 24 rows, part of it the truth table, with a negative result.
C24_Witness ==
    /\ transpose = "avx2" /\ tr_out # <<>>
    /\ tr_count = 32 /\ tr_bits > 24
    /\ tr_in = TruthInput(32)
    /\ \E j \in 0 .. 31 : 63 \in tr_out[j + 1]

\* C25: whenever a read() call wrote a record, the capacity the record
\* buffer had when the bytes were written held all of them (the presence
\* data of an observation record, the text of an event record, in the 2.x
\* and the 3.x reader), and the value, LLI and SSI arrays held every
\* observation of the record.
C25_BufferCapacity ==
    hist.calls > 0 =>
        /\ hist.outcome # "overflow"
        /\ ret = RINEX_SUCCESS => (buffer_len <= buffer_alloc /\ hist.nn <= obs_alloc)

\* The value of int '.' frac times 1000 for a field of FxShort: the digits
\* before the first space or newline that follows the point, the missing
\* fractional digits taken as zero.
RECURSIVE ShortDigits(_, _, _, _)
ShortDigits(f, i, acc, ended) ==
    IF i > 13 THEN acc
    ELSE IF ~ended /\ At(f, i) \in Digits
         THEN ShortDigits(f, i + 1, BigMulAdd(acc, Ord(At(f, i)) - Ord("0")), FALSE)
    ELSE IF i > 10 THEN ShortDigits(f, i + 1, BigMulAdd(acc, 0), TRUE)
    ELSE ShortDigits(f, i + 1, acc, FALSE)
ShortTimes1000(f) ==
    IF \E i \in 0 .. 9 : At(f, i) = "-"
    THEN BigNeg(ShortDigits(f, 0, BigZero, FALSE))
    ELSE ShortDigits(f, 0, BigZero, FALSE)

\* C26: parse_fixed returns on every field, and a field whose fractional
\* digits are followed by spaces, or by a newline inside the field width,
\* is accepted with the value times 10^frac, the missing fractional digits
\* taken as zero.
C26_ParseFixedTrailing ==
    fx_ret.ret # "none" =>
        /\ fx_ret.ret # "hang"
        /\ fx_field \in FxShort =>
               fx_ret = [ret |-> "value", value |-> ShortTimes1000(fx_field)]

\* C28: srnx_get_epochs writes only epoch entries with index < n_epoch; a
\* span count or a clock-offset run count that passes the last epoch makes
\* the call fail with Corrupt instead; and the epochs no clock-offset run
\* covers (all of them in the chunks without runs) get clock offset 0.
C28_EpochBounds ==
    epoc.state # "closed" =>
        /\ epoc.state # "undefined"
        /\ ~epoc.wf => (epoc.state = "done" /\ epoc.ret = SRNX_CORRUPT)
        /\ (epoc.wf /\ epoc.state = "done" /\ epoc.ret = 0) =>
               \A k \in 1 .. Len(epoc.list) : epoc.list[k].clock_offset = U64Zero


====
